---- MODULE Spec2Model ----
(***************************************************************************)
(* GoRetro: the room aggregate (internal/models), the PostgreSQL room      *)
(* store, the websocket Hub's message router and the HTTP join handlers.   *)
(*                                                                         *)
(* One room is modelled.  `db` is the aggregate as RoomStore.Update last   *)
(* wrote it; every handler starts with RoomStore.Get, which builds a fresh *)
(* Room from the rows, changes that private copy and writes it back whole. *)
(***************************************************************************)
EXTENDS Integers, Sequences, FiniteSets, TLC

\* ---------------------------------------------------------------- bounds
MaxTickets == 2          \* ticket ids uuid.New() hands out in one run
MaxActions == 1          \* action ids uuid.New() hands out in one run
MaxVotesPerUser == 2     \* largest votes_per_user a room is created with
MaxChildren == 2         \* longest child_ticket_ids list of a merge group
MaxInflight == 2         \* handlers between store.Get and store.Update at once
MaxQueue == 2            \* capacity of a client's Send channel (256 in NewClient)
MaxFrames == 5           \* frames the handlers marshal in one run
MaxConns == 3            \* connections opened in one run

\* ------------------------------------------------------------- constants
PhaseTicketing == "TICKETING"
PhaseMerging == "MERGING"
PhaseVoting == "VOTING"
PhaseDiscussion == "DISCUSSION"
PhaseSummary == "SUMMARY"
Phases == {PhaseTicketing, PhaseMerging, PhaseVoting, PhaseDiscussion, PhaseSummary}

RoleOwner == "owner"
RoleModerator == "moderator"
RoleParticipant == "participant"

StatusPending == "pending"
StatusApproved == "approved"

\* The users the edge proxy can announce; the creator of the room is Owner.
Owner == "alice"
Users == {"alice", "bob"}

\* Ticket references.  A ticket id is a uuid; Nil is the nil *string,
\* Ghost is a string that is the id of no ticket.
Nil == 0
TicketIDs == 1..MaxTickets
Ghost == MaxTickets + 1
Refs == TicketIDs \cup {Ghost}
ActionIDs == 1..MaxActions

\* ------------------------------------------------------- models.go: Room
Participant(role, status) ==
    [role |-> role, status |-> status, votesUsed |-> 0]

AddParticipant(r, userID, role, status) ==
    IF status = StatusPending
    THEN [r EXCEPT !.pendingParticipants =
             [u \in (DOMAIN r.pendingParticipants) \cup {userID} |->
                 IF u = userID THEN Participant(role, status)
                 ELSE r.pendingParticipants[u]]]
    ELSE [r EXCEPT !.participants =
             [u \in (DOMAIN r.participants) \cup {userID} |->
                 IF u = userID THEN Participant(role, status)
                 ELSE r.participants[u]]]

EmptyMap == [x \in {} |-> Nil]

Without(f, k) == [x \in (DOMAIN f) \ {k} |-> f[x]]

With(f, k, v) == [x \in (DOMAIN f) \cup {k} |-> IF x = k THEN v ELSE f[x]]

RemoveParticipant(r, userID) ==
    [r EXCEPT !.participants = Without(r.participants, userID),
              !.pendingParticipants = Without(r.pendingParticipants, userID)]

ApproveParticipantOk(r, userID) == userID \in DOMAIN r.pendingParticipants

\* ApproveParticipant without delete(r.PendingParticipants, userID)
ApproveParticipantKeepsPending(r, userID) ==
    IF userID \in DOMAIN r.pendingParticipants
    THEN [r EXCEPT
            !.participants = With(r.participants, userID,
                [r.pendingParticipants[userID] EXCEPT !.status = StatusApproved])]
    ELSE r

ApproveParticipant(r, userID) ==
    IF userID \in DOMAIN r.pendingParticipants
    THEN [r EXCEPT
            !.participants = With(r.participants, userID,
                [r.pendingParticipants[userID] EXCEPT !.status = StatusApproved]),
            !.pendingParticipants = Without(r.pendingParticipants, userID)]
    ELSE r

RejectParticipantOk(r, userID) == userID \in DOMAIN r.pendingParticipants

RejectParticipant(r, userID) ==
    IF userID \in DOMAIN r.pendingParticipants
    THEN [r EXCEPT !.pendingParticipants = Without(r.pendingParticipants, userID)]
    ELSE r

GetPendingParticipant(r, userID) == userID \in DOMAIN r.pendingParticipants

GetParticipant(r, userID) == userID \in DOMAIN r.participants

SetParticipantRoleOk(r, userID) == userID \in DOMAIN r.participants

SetParticipantRole(r, userID, role) ==
    IF userID \in DOMAIN r.participants
    THEN [r EXCEPT !.participants[userID].role = role]
    ELSE r

IsModeratorOrOwner(r, userID) ==
    /\ userID \in DOMAIN r.participants
    /\ r.participants[userID].role \in {RoleOwner, RoleModerator}

AddTicket(r, id, ticket) == [r EXCEPT !.tickets = With(r.tickets, id, ticket)]

RemoveTicket(r, ticketID) == [r EXCEPT !.tickets = Without(r.tickets, ticketID)]

GetTicket(r, ticketID) == ticketID \in DOMAIN r.tickets

AddActionTicket(r, id, action) ==
    [r EXCEPT !.actionTickets = With(r.actionTickets, id, action)]

RemoveActionTicket(r, actionID) ==
    [r EXCEPT !.actionTickets = Without(r.actionTickets, actionID)]

GetActionTicket(r, actionID) == actionID \in DOMAIN r.actionTickets

\* SetPhase that gives every participant the votes back on entering VOTING
SetPhaseResetsVotes(r, phase) ==
    [r EXCEPT !.phase = phase,
              !.participants =
                  [u \in DOMAIN r.participants |->
                      IF phase = PhaseVoting
                      THEN [r.participants[u] EXCEPT !.votesUsed = 0]
                      ELSE r.participants[u]]]

SetPhase(r, phase) == [r EXCEPT !.phase = phase]

SetAutoApprove(r, autoApprove) == [r EXCEPT !.autoApprove = autoApprove]

\* i is an index of s holding v, and no smaller index does
FirstIndex(s, v) == CHOOSE i \in 1..Len(s) : s[i] = v /\ \A j \in 1..(i - 1) : s[j] # v

Contains(s, v) == \E i \in 1..Len(s) : s[i] = v

RemoveAt(s, i) == SubSeq(s, 1, i - 1) \o SubSeq(s, i + 1, Len(s))

\* Vote without the loop over t.VoterIDs
VoteOkRepeated(r, userID, ticketID) ==
    /\ userID \in DOMAIN r.participants
    /\ ticketID \in DOMAIN r.tickets
    /\ ~(r.participants[userID].votesUsed >= r.votesPerUser)

\* Vote comparing VotesUsed > VotesPerUser
VoteOkOneMore(r, userID, ticketID) ==
    /\ userID \in DOMAIN r.participants
    /\ ticketID \in DOMAIN r.tickets
    /\ ~(r.participants[userID].votesUsed > r.votesPerUser)
    /\ ~Contains(r.tickets[ticketID].voterIDs, userID)

\* Vote without the test of VotesUsed against VotesPerUser
VoteOkNoQuota(r, userID, ticketID) ==
    /\ userID \in DOMAIN r.participants
    /\ ticketID \in DOMAIN r.tickets
    /\ ~Contains(r.tickets[ticketID].voterIDs, userID)

VoteOk(r, userID, ticketID) ==
    /\ userID \in DOMAIN r.participants
    /\ ticketID \in DOMAIN r.tickets
    /\ ~(r.participants[userID].votesUsed >= r.votesPerUser)
    /\ ~Contains(r.tickets[ticketID].voterIDs, userID)

Vote(r, userID, ticketID) ==
    IF VoteOk(r, userID, ticketID)
    THEN [r EXCEPT !.tickets[ticketID].votes = @ + 1,
                   !.tickets[ticketID].voterIDs = Append(@, userID),
                   !.participants[userID].votesUsed = @ + 1]
    ELSE r

UnvoteOk(r, userID, ticketID) ==
    /\ userID \in DOMAIN r.participants
    /\ ticketID \in DOMAIN r.tickets
    /\ Contains(r.tickets[ticketID].voterIDs, userID)

\* Unvote without p.VotesUsed--
UnvoteKeepsVotesUsed(r, userID, ticketID) ==
    IF UnvoteOk(r, userID, ticketID)
    THEN [r EXCEPT !.tickets[ticketID].votes = @ - 1,
                   !.tickets[ticketID].voterIDs =
                       RemoveAt(@, FirstIndex(@, userID))]
    ELSE r

Unvote(r, userID, ticketID) ==
    IF UnvoteOk(r, userID, ticketID)
    THEN [r EXCEPT !.tickets[ticketID].votes = @ - 1,
                   !.tickets[ticketID].voterIDs =
                       RemoveAt(@, FirstIndex(@, userID)),
                   !.participants[userID].votesUsed = @ - 1]
    ELSE r

NewRoom(votesPerUser) ==
    [phase |-> PhaseTicketing,
     votesPerUser |-> votesPerUser,
     autoApprove |-> FALSE,
     participants |-> EmptyMap,
     pendingParticipants |-> EmptyMap,
     tickets |-> EmptyMap,
     actionTickets |-> EmptyMap]

\* --------------------------------------------------- websocket: frames
\* A frame the server hands to a delivery primitive:
\*   "conn"     client.SendMessage on the handling connection (sendError,
\*              SendRoomState)
\*   "client"   Hub.SendToClient(roomID, target)
\*   "room"     Hub.BroadcastToRoom
\*   "approved" Hub.BroadcastToApprovedParticipants
NoClient == ""

Frame(type, via, target) ==
    [type |-> type, via |-> via, target |-> target, message |-> ""]

ErrorFrame(client, message) ==
    [type |-> "error", via |-> "conn", target |-> client, message |-> message]

\* What a handler did with its private copy of the room: `update` tells
\* whether it reached store.Update, `before` are the frames it sent before
\* that call, `after` the frames it sends once Update has succeeded and
\* `failed` the frames it sends when Update returns an error.
Reject(room, client, message) ==
    [room |-> room, update |-> FALSE,
     before |-> <<ErrorFrame(client, message)>>, after |-> <<>>, failed |-> <<>>]

Persist(room, client, after, failure) ==
    [room |-> room, update |-> TRUE, before |-> <<>>, after |-> after,
     failed |-> <<ErrorFrame(client, failure)>>]

NewTicket(content, authorID) ==
    [content |-> content, authorID |-> authorID, deduplicationTicketID |-> Nil,
     votes |-> 0, voterIDs |-> <<>>, covered |-> FALSE]

\* ------------------------------------------------- hub.go: the handlers
\* handleAddTicket without the phase check
handleAddTicketAnyPhase(client, room, payload, newID) ==
    IF payload.content = ""
    THEN Reject(room, client, "Content is required")
    ELSE Persist(AddTicket(room, newID, NewTicket(payload.content, client)), client,
                 <<Frame("ticket_added", "approved", NoClient)>>, "Failed to save ticket")

handleAddTicket(client, room, payload, newID) ==
    IF room.phase # PhaseTicketing
    THEN Reject(room, client, "Can only add tickets during ticketing phase")
    ELSE IF payload.content = ""
    THEN Reject(room, client, "Content is required")
    ELSE Persist(AddTicket(room, newID, NewTicket(payload.content, client)), client,
                 <<Frame("ticket_added", "approved", NoClient)>>, "Failed to save ticket")

Absent == -1

editedTicket(ticket, payload) ==
    [ticket EXCEPT
        !.content = IF payload.hasContent THEN payload.content ELSE @,
        !.deduplicationTicketID =
            IF payload.deduplication_ticket_id = Absent THEN @
            ELSE payload.deduplication_ticket_id]

handleEditTicket(client, room, payload) ==
    IF ~GetTicket(room, payload.ticket_id)
    THEN Reject(room, client, "Ticket not found")
    ELSE IF room.tickets[payload.ticket_id].authorID # client
            /\ ~IsModeratorOrOwner(room, client)
    THEN Reject(room, client, "Not authorized to edit this ticket")
    ELSE Persist([room EXCEPT !.tickets[payload.ticket_id] = editedTicket(@, payload)],
                 client, <<Frame("ticket_updated", "approved", NoClient)>>,
                 "Failed to update ticket")

\* handleDeleteTicket without the author-or-moderator check
handleDeleteTicketAnyone(client, room, payload) ==
    IF ~GetTicket(room, payload.ticket_id)
    THEN Reject(room, client, "Ticket not found")
    ELSE Persist(RemoveTicket(room, payload.ticket_id), client,
                 <<Frame("ticket_deleted", "approved", NoClient)>>,
                 "Failed to delete ticket")

handleDeleteTicket(client, room, payload) ==
    IF ~GetTicket(room, payload.ticket_id)
    THEN Reject(room, client, "Ticket not found")
    ELSE IF room.tickets[payload.ticket_id].authorID # client
            /\ ~IsModeratorOrOwner(room, client)
    THEN Reject(room, client, "Not authorized to delete this ticket")
    ELSE Persist(RemoveTicket(room, payload.ticket_id), client,
                 <<Frame("ticket_deleted", "approved", NoClient)>>,
                 "Failed to delete ticket")

handleVote(client, room, payload) ==
    IF room.phase # PhaseVoting
    THEN Reject(room, client, "Can only vote during voting phase")
    ELSE IF ~VoteOk(room, client, payload.ticket_id)
    THEN Reject(room, client, "Could not vote (no votes left or already voted)")
    ELSE Persist(Vote(room, client, payload.ticket_id), client,
                 <<Frame("vote_updated", "approved", NoClient)>>, "Failed to save vote")

handleUnvote(client, room, payload) ==
    IF room.phase # PhaseVoting
    THEN Reject(room, client, "Can only unvote during voting phase")
    ELSE IF ~UnvoteOk(room, client, payload.ticket_id)
    THEN Reject(room, client, "Could not unvote")
    ELSE Persist(Unvote(room, client, payload.ticket_id), client,
                 <<Frame("vote_updated", "approved", NoClient)>>, "Failed to save unvote")

NewAction(ticketID, auto) == [ticketID |-> ticketID, auto |-> auto]

handleAddAction(client, room, payload, newID) ==
    IF room.phase # PhaseDiscussion
    THEN Reject(room, client, "Can only add actions during discussion phase")
    ELSE IF ~IsModeratorOrOwner(room, client)
    THEN Reject(room, client, "Only moderators can add actions")
    ELSE Persist(AddActionTicket(room, newID, NewAction(payload.ticket_id, FALSE)),
                 client, <<Frame("action_added", "approved", NoClient)>>,
                 "Failed to save action")

handleDeleteAction(client, room, payload) ==
    IF room.phase # PhaseDiscussion
    THEN Reject(room, client, "Can only delete actions during discussion phase")
    ELSE IF ~IsModeratorOrOwner(room, client)
    THEN Reject(room, client, "Only moderators can delete actions")
    ELSE IF payload.action_id = Nil
    THEN Reject(room, client, "Action ID is required")
    ELSE IF ~GetActionTicket(room, payload.action_id)
    THEN Reject(room, client, "Action not found")
    ELSE Persist(RemoveActionTicket(room, payload.action_id), client,
                 <<Frame("action_deleted", "approved", NoClient)>>,
                 "Failed to delete action")

handleMarkCovered(client, room, payload) ==
    IF room.phase # PhaseDiscussion /\ room.phase # PhaseSummary
    THEN Reject(room, client,
                "Can only mark tickets as covered during discussion or summary phase")
    ELSE IF ~IsModeratorOrOwner(room, client)
    THEN Reject(room, client, "Only moderators can mark tickets as covered")
    ELSE IF payload.ticket_id = Nil
    THEN Reject(room, client, "Ticket ID is required")
    ELSE IF ~payload.hasCovered
    THEN Reject(room, client, "Covered status is required")
    ELSE IF ~GetTicket(room, payload.ticket_id)
    THEN Reject(room, client, "Ticket not found")
    ELSE Persist([room EXCEPT !.tickets[payload.ticket_id].covered = payload.covered],
                 client, <<Frame("ticket_updated", "approved", NoClient)>>,
                 "Failed to update ticket covered status")

\* handleSetPhase without the loop over validPhases
handleSetPhaseAnyValue(client, room, payload) ==
    IF ~IsModeratorOrOwner(room, client)
    THEN Reject(room, client, "Only moderators can change phase")
    ELSE Persist(SetPhase(room, payload.phase), client,
                 <<Frame("phase_changed", "approved", NoClient)>>,
                 "Failed to save phase change")

handleSetPhase(client, room, payload) ==
    IF ~IsModeratorOrOwner(room, client)
    THEN Reject(room, client, "Only moderators can change phase")
    ELSE IF payload.phase \notin Phases
    THEN Reject(room, client, "Invalid phase")
    ELSE Persist(SetPhase(room, payload.phase), client,
                 <<Frame("phase_changed", "approved", NoClient)>>,
                 "Failed to save phase change")

handleSetRole(client, room, payload) ==
    IF Owner # client
    THEN Reject(room, client, "Only room owner can change roles")
    ELSE IF payload.role # RoleModerator /\ payload.role # RoleParticipant
    THEN Reject(room, client, "Invalid role")
    ELSE IF ~SetParticipantRoleOk(room, payload.user_id)
    THEN Reject(room, client, "User not found")
    ELSE Persist(SetParticipantRole(room, payload.user_id, payload.role), client,
                 <<Frame("role_changed", "room", NoClient)>>,
                 "Failed to save role change")

handleRemoveUser(client, room, payload) ==
    IF Owner # client /\ ~IsModeratorOrOwner(room, client)
    THEN Reject(room, client, "Only owner or moderator can remove users")
    ELSE IF payload.user_id = Owner
    THEN Reject(room, client, "Cannot remove room owner")
    ELSE Persist(RemoveParticipant(room, payload.user_id), client,
                 <<Frame("user_removed", "room", NoClient)>>, "Failed to remove user")

\* handleApproveParticipant sending the room_state on the sender's client
handleApproveParticipantToSender(client, room, payload) ==
    IF ~IsModeratorOrOwner(room, client)
    THEN Reject(room, client, "Only moderator or owner can approve participants")
    ELSE IF ~ApproveParticipantOk(room, payload.user_id)
    THEN Reject(room, client, "Participant not found in pending list")
    ELSE Persist(ApproveParticipant(room, payload.user_id), client,
                 <<Frame("participant_approved", "room", NoClient),
                   Frame("room_state", "client", client)>>,
                 "Failed to approve participant")

handleApproveParticipant(client, room, payload) ==
    IF ~IsModeratorOrOwner(room, client)
    THEN Reject(room, client, "Only moderator or owner can approve participants")
    ELSE IF ~ApproveParticipantOk(room, payload.user_id)
    THEN Reject(room, client, "Participant not found in pending list")
    ELSE Persist(ApproveParticipant(room, payload.user_id), client,
                 <<Frame("participant_approved", "room", NoClient),
                   Frame("room_state", "client", payload.user_id)>>,
                 "Failed to approve participant")

handleRejectParticipant(client, room, payload) ==
    IF ~IsModeratorOrOwner(room, client)
    THEN Reject(room, client, "Only moderator or owner can reject participants")
    ELSE IF ~RejectParticipantOk(room, payload.user_id)
    THEN Reject(room, client, "Participant not found in pending list")
    ELSE Persist(RejectParticipant(room, payload.user_id), client,
                 <<Frame("participant_rejected", "room", NoClient)>>,
                 "Failed to reject participant")

handleSetAutoApprove(client, room, payload) ==
    IF ~IsModeratorOrOwner(room, client)
    THEN Reject(room, client, "Only moderator or owner can change auto-approve setting")
    ELSE IF ~payload.hasAutoApprove
    THEN Reject(room, client, "Invalid auto_approve value")
    ELSE Persist(SetAutoApprove(room, payload.auto_approve), client,
                 <<Frame("auto_approve_changed", "room", NoClient)>>,
                 "Failed to update auto-approve setting")

\* mergeChildren is the inner loop of handleAutoMergeTickets over
\* group.ChildTicketIDs from index i on: acc.room is the handler's room,
\* acc.merges is mergesApplied, acc.frames the ticket_updated broadcasts.
RECURSIVE mergeChildren(_, _, _, _)
mergeChildren(acc, parentID, children, i) ==
    IF i > Len(children) THEN acc
    ELSE LET childID == children[i] IN
         IF ~GetTicket(acc.room, childID)
         THEN mergeChildren(acc, parentID, children, i + 1)
         ELSE IF acc.room.tickets[childID].deduplicationTicketID # Nil
         THEN mergeChildren(acc, parentID, children, i + 1)
         ELSE IF childID = parentID
         THEN mergeChildren(acc, parentID, children, i + 1)
         ELSE mergeChildren(
                [room |-> [acc.room EXCEPT
                              !.tickets[childID].deduplicationTicketID = parentID],
                 merges |-> acc.merges + 1,
                 frames |-> Append(acc.frames,
                                   Frame("ticket_updated", "approved", NoClient))],
                parentID, children, i + 1)

\* the outer loop over mergeResponse.MergeGroups from index g on
RECURSIVE mergeGroups(_, _, _)
mergeGroups(acc, groups, g) ==
    IF g > Len(groups) THEN acc
    ELSE LET group == groups[g] IN
         IF ~GetTicket(acc.room, group.parent_ticket_id)
         THEN mergeGroups(acc, groups, g + 1)
         ELSE IF acc.room.tickets[group.parent_ticket_id].deduplicationTicketID # Nil
         THEN mergeGroups(acc, groups, g + 1)
         ELSE mergeGroups(
                mergeChildren(acc, group.parent_ticket_id, group.child_ticket_ids, 1),
                groups, g + 1)

CompleteFrame(type, client, count) ==
    [type |-> type, via |-> "client", target |-> client, message |-> "",
     count |-> count, groups |-> 0]

\* payload.configured is h.chatCompletion != nil && IsConfigured(),
\* payload.err the error of chatCompletion.SuggestMerges and payload.groups
\* its MergeGroups
\* handleAutoMergeTickets reporting the number of groups as merges_applied
handleAutoMergeTicketsCountsGroups(client, room, payload) ==
    IF ~IsModeratorOrOwner(room, client)
    THEN Reject(room, client, "Only moderators can trigger auto-merge")
    ELSE IF room.phase # PhaseMerging
    THEN Reject(room, client, "Auto-merge is only available during discussion phase")
    ELSE IF ~payload.configured
    THEN Reject(room, client, "Chat completion service not configured")
    ELSE IF payload.err
    THEN [room |-> room, update |-> FALSE,
          before |-> <<Frame("auto_merge_progress", "client", client),
                       ErrorFrame(client, "Auto-merge failed")>>,
          after |-> <<>>, failed |-> <<>>]
    ELSE LET acc == mergeGroups([room |-> room, merges |-> 0, frames |-> <<>>],
                                payload.groups, 1)
         IN [room |-> acc.room, update |-> TRUE,
             before |-> <<Frame("auto_merge_progress", "client", client)>> \o acc.frames,
             after |-> <<[CompleteFrame("auto_merge_complete", client,
                                        Len(payload.groups))
                            EXCEPT !.groups = Len(payload.groups)]>>,
             failed |-> <<ErrorFrame(client, "Failed to save changes")>>]

handleAutoMergeTickets(client, room, payload) ==
    IF ~IsModeratorOrOwner(room, client)
    THEN Reject(room, client, "Only moderators can trigger auto-merge")
    ELSE IF room.phase # PhaseMerging
    THEN Reject(room, client, "Auto-merge is only available during discussion phase")
    ELSE IF ~payload.configured
    THEN Reject(room, client, "Chat completion service not configured")
    ELSE IF payload.err
    THEN [room |-> room, update |-> FALSE,
          before |-> <<Frame("auto_merge_progress", "client", client),
                       ErrorFrame(client, "Auto-merge failed")>>,
          after |-> <<>>, failed |-> <<>>]
    ELSE LET acc == mergeGroups([room |-> room, merges |-> 0, frames |-> <<>>],
                                payload.groups, 1)
         IN [room |-> acc.room, update |-> TRUE,
             before |-> <<Frame("auto_merge_progress", "client", client)>> \o acc.frames,
             after |-> <<[CompleteFrame("auto_merge_complete", client, acc.merges)
                            EXCEPT !.groups = Len(payload.groups)]>>,
             failed |-> <<ErrorFrame(client, "Failed to save changes")>>]

\* the loop of handleAutoProposeActions over actionResponse.Actions from
\* index i on; the ids uuid.New() returns are newID, newID + 1, ...
RECURSIVE proposeActions(_, _, _, _)
proposeActions(acc, actions, i, newID) ==
    IF i > Len(actions) THEN acc
    ELSE proposeActions(
           [room |-> AddActionTicket(acc.room, newID + i - 1,
                                     NewAction(actions[i].ticket_id, TRUE)),
            created |-> acc.created + 1,
            frames |-> Append(acc.frames, Frame("action_added", "approved", NoClient))],
           actions, i + 1, newID)

handleAutoProposeActions(client, room, payload, newID) ==
    IF ~IsModeratorOrOwner(room, client)
    THEN Reject(room, client, "Only moderators can trigger auto-propose actions")
    ELSE IF room.phase # PhaseDiscussion
    THEN Reject(room, client,
                "Auto-propose actions is only available during summary phase")
    ELSE IF ~payload.configured
    THEN Reject(room, client, "Chat completion service not configured")
    ELSE IF payload.err
    THEN [room |-> room, update |-> FALSE,
          before |-> <<Frame("auto_propose_progress", "client", client),
                       ErrorFrame(client, "Auto-propose actions failed")>>,
          after |-> <<>>, failed |-> <<>>]
    ELSE LET acc == proposeActions([room |-> room, created |-> 0, frames |-> <<>>],
                                   payload.actions, 1, newID)
         IN [room |-> acc.room, update |-> TRUE,
             before |-> <<Frame("auto_propose_progress", "client", client)>> \o acc.frames,
             after |-> <<CompleteFrame("auto_propose_complete", client, acc.created)>>,
             failed |-> <<ErrorFrame(client, "Failed to save actions")>>]

\* ------------------------------------------------ store.go: RoomStore
\* The rows RoomStore.Update inserts for a room: one participants row per
\* entry of Participants and one per entry of PendingParticipants, each
\* carrying its status column.
Update(room) ==
    [room |-> [phase |-> room.phase, votes_per_user |-> room.votesPerUser,
               auto_approve |-> room.autoApprove],
     participants |->
        {[user_id |-> u, role |-> room.participants[u].role,
          status |-> room.participants[u].status,
          votes_used |-> room.participants[u].votesUsed] :
            u \in DOMAIN room.participants}
        \cup
        {[user_id |-> u, role |-> room.pendingParticipants[u].role,
          status |-> room.pendingParticipants[u].status,
          votes_used |-> room.pendingParticipants[u].votesUsed] :
            u \in DOMAIN room.pendingParticipants},
     tickets |-> room.tickets,
     action_tickets |-> room.actionTickets]

\* The rows as a failing Update has left them inside its transaction when
\* the first INSERT fails: the rooms row updated, the room's participants,
\* tickets and action_tickets rows deleted.
Deleted(rows, room) ==
    [room |-> [phase |-> room.phase, votes_per_user |-> room.votesPerUser,
               auto_approve |-> room.autoApprove],
     participants |-> {},
     tickets |-> EmptyMap,
     action_tickets |-> EmptyMap]

\* statements that take effect one by one, outside a transaction
RollbackNothing(rows, written) == written

\* defer tx.Rollback(): what the transaction wrote is discarded
Rollback(rows, written) == rows

\* RoomStore.Update as the database sees it: the new rows when the
\* transaction commits (dbOk), the old ones when a statement or the commit
\* fails
Save(rows, room, dbOk) ==
    IF dbOk THEN Update(room) ELSE Rollback(rows, Deleted(rows, room))

rowsToMap(rows) ==
    [u \in {p.user_id : p \in rows} |->
        LET p == CHOOSE p \in rows : p.user_id = u
        IN [role |-> p.role, status |-> p.status, votesUsed |-> p.votes_used]]

\* RoomStore.Get: a fresh Room; a row goes to PendingParticipants when its
\* status is pending and to Participants otherwise.
Get(rows) ==
    [phase |-> rows.room.phase,
     votesPerUser |-> rows.room.votes_per_user,
     autoApprove |-> rows.room.auto_approve,
     participants |-> rowsToMap({p \in rows.participants : p.status # StatusPending}),
     pendingParticipants |->
         rowsToMap({p \in rows.participants : p.status = StatusPending}),
     tickets |-> rows.tickets,
     actionTickets |-> rows.action_tickets]

\* the server processes sharing the database and the Redis channel
Instances == {"A", "B"}

NoInstance == ""

\* ------------------------------------------------------------- state
VARIABLES
    db,              \* the rows of the room in PostgreSQL
    online,          \* users whose connection has its readPump running
    ticketSeq,       \* ticket ids handed out so far
    actionSeq,       \* action ids handed out so far
    inflight,        \* handlers that called store.Get and not yet store.Update
    redisPubSub,     \* Hub.redisPubSub is set (REDIS_URL is configured)
    hub,             \* per user, the instance whose Hub.rooms holds its client
    send,            \* per user, the frames in its client's Send channel
    attempts,        \* per user, the frames SendMessage was called with
    written,         \* per user, the frames writePump wrote to the socket
    redis,           \* per instance, the published messages not yet received
    frameSeq,        \* frames marshalled so far
    sockets,         \* per connection, its client and its two goroutines
    rooms,           \* per user id, the connection Hub.rooms holds for it
    reads,           \* a RoomStore.Get under way: statements done, rows read
    mu               \* Hub.mu, Hub.Run and the goroutines that use the hub

\* the hubs, their clients and the Redis channel
wire == <<redisPubSub, hub, send, attempts, written, redis, frameSeq>>

\* the connections of one instance, each with a client of its own
tabs == <<sockets, rooms, reads, mu>>

vars == <<db, online, ticketSeq, actionSeq, inflight, wire, tabs>>

\* the connections a run may open, in the order they are opened
Conns == 1..MaxConns

\* a connection nobody has opened.  Of an open one: the user id of its
\* client, whether readPump and writePump run, whether the peer or the
\* server has closed the socket, whether client.Send is closed, and the
\* number of frames client.Send holds.
NoSocket ==
    [user |-> NoClient, reader |-> FALSE, writer |-> FALSE, gone |-> FALSE,
     closed |-> FALSE, send |-> 0]

\* The room as a handler that calls store.Get now sees it.
Stored == Get(db)

\* --------------------------------------------------- inbound frames
\* Each family is the frames of one type over the payloads given.
AddTicketFrames(contents) == [type : {"add_ticket"}, content : contents]

EditTicketFrames(ids, hasContent, contents, parents) ==
    [type : {"edit_ticket"}, ticket_id : ids, hasContent : hasContent,
     content : contents, deduplication_ticket_id : parents]

TicketFrames(types, ids) == [type : types, ticket_id : ids]

DeleteActionFrames(ids) == [type : {"delete_action"}, action_id : ids]

MarkCoveredFrames(ids, hasCovered) ==
    [type : {"mark_covered"}, ticket_id : ids, hasCovered : hasCovered,
     covered : BOOLEAN]

SetPhaseFrames(phases) == [type : {"set_phase"}, phase : phases]

SetRoleFrames(roles) == [type : {"set_role"}, user_id : Users, role : roles]

UserFrames(types) == [type : types, user_id : Users]

SetAutoApproveFrames(hasAutoApprove) ==
    [type : {"set_auto_approve"}, hasAutoApprove : hasAutoApprove,
     auto_approve : BOOLEAN]

\* the replies of the chat completion service: an error, or a list
SeqsUpTo(S, n) == UNION {[1..k -> S] : k \in 0..n}

MergeGroup(parents, children) ==
    [parent_ticket_id : parents, child_ticket_ids : children]

AutoMergeFrames(configured, groups) ==
    [type : {"auto_merge"}, configured : configured, err : {FALSE}, groups : groups]
    \cup [type : {"auto_merge"}, configured : configured, err : {TRUE},
          groups : {<<>>}]

AutoProposeFrames(configured, actions) ==
    [type : {"auto_propose_actions"}, configured : configured, err : {FALSE},
     actions : actions]
    \cup [type : {"auto_propose_actions"}, configured : configured, err : {TRUE},
          actions : {<<>>}]

\* a frame of a type the switch does not know and a frame that is not JSON
OtherFrames == [type : {"join_room", "invalid"}]

Contents == {"", "a"}

\* every frame the model knows
Frames ==
    AddTicketFrames(Contents)
    \cup EditTicketFrames(Refs, BOOLEAN, Contents, {Absent, Nil} \cup Refs)
    \cup TicketFrames({"delete_ticket", "vote", "unvote", "add_action"}, Refs)
    \cup DeleteActionFrames({Nil} \cup 1..(MaxActions + 1))
    \cup MarkCoveredFrames({Nil} \cup Refs, BOOLEAN)
    \cup SetPhaseFrames(Phases \cup {"RETRO"})
    \cup SetRoleFrames({RoleOwner, RoleModerator, RoleParticipant})
    \cup UserFrames({"remove_user", "approve_participant", "reject_participant"})
    \cup SetAutoApproveFrames(BOOLEAN)
    \cup AutoMergeFrames(BOOLEAN,
            SeqsUpTo(MergeGroup(Refs, SeqsUpTo(Refs, MaxChildren)), 1))
    \cup AutoProposeFrames(BOOLEAN, SeqsUpTo([ticket_id : Refs], MaxActions))
    \cup OtherFrames

\* the switch of Hub.HandleMessage; the ids are the ones uuid.New() returns
Dispatch(client, room, message, ticketID, actionID) ==
    CASE message.type = "add_ticket" ->
            handleAddTicket(client, room, message, ticketID)
      [] message.type = "edit_ticket" -> handleEditTicket(client, room, message)
      [] message.type = "delete_ticket" -> handleDeleteTicket(client, room, message)
      [] message.type = "vote" -> handleVote(client, room, message)
      [] message.type = "unvote" -> handleUnvote(client, room, message)
      [] message.type = "add_action" ->
            handleAddAction(client, room, message, actionID)
      [] message.type = "delete_action" -> handleDeleteAction(client, room, message)
      [] message.type = "mark_covered" -> handleMarkCovered(client, room, message)
      [] message.type = "set_phase" -> handleSetPhase(client, room, message)
      [] message.type = "set_role" -> handleSetRole(client, room, message)
      [] message.type = "remove_user" -> handleRemoveUser(client, room, message)
      [] message.type = "approve_participant" ->
            handleApproveParticipant(client, room, message)
      [] message.type = "reject_participant" ->
            handleRejectParticipant(client, room, message)
      [] message.type = "set_auto_approve" ->
            handleSetAutoApprove(client, room, message)
      [] message.type = "auto_merge" ->
            handleAutoMergeTickets(client, room, message)
      [] message.type = "auto_propose_actions" ->
            handleAutoProposeActions(client, room, message, actionID)
      [] OTHER -> Reject(room, client, "Unknown message type")

\* Hub.HandleMessage without the GetParticipant check
RouteUnapproved(client, room, message, ticketID, actionID) ==
    IF message.type = "invalid"
    THEN Reject(room, client, "Invalid message format")
    ELSE Dispatch(client, room, message, ticketID, actionID)

\* Hub.HandleMessage up to the handler's return
Route(client, room, message, ticketID, actionID) ==
    IF message.type = "invalid"
    THEN Reject(room, client, "Invalid message format")
    ELSE IF ~GetParticipant(room, client)
    THEN Reject(room, client, "You must be approved to perform actions")
    ELSE Dispatch(client, room, message, ticketID, actionID)

\* what Hub.HandleMessage does with this frame in the current state
Handled(client, message) ==
    Route(client, Get(db), message, ticketSeq + 1, actionSeq + 1)

\* entries a handler's room has more than the room it loaded
Added(before, after) == Cardinality((DOMAIN after) \ (DOMAIN before))

\* One frame read by readPump and handled by Hub.HandleMessage.  When the
\* handler reaches store.Update the database either commits the rows or
\* returns an error and keeps the old ones.
HandleMessage(client, message) ==
    /\ client \in online
    /\ LET room == Get(db)
           res == Handled(client, message)
           tickets == Added(room.tickets, res.room.tickets)
           actions == Added(room.actionTickets, res.room.actionTickets)
       IN /\ ticketSeq + tickets <= MaxTickets
          /\ actionSeq + actions <= MaxActions
          /\ \E dbOk \in BOOLEAN :
                IF res.update
                THEN /\ db' = Save(db, res.room, dbOk)
                     /\ ticketSeq' = IF dbOk THEN ticketSeq + tickets ELSE ticketSeq
                     /\ actionSeq' = IF dbOk THEN actionSeq + actions ELSE actionSeq
                ELSE UNCHANGED <<db, ticketSeq, actionSeq>>
    /\ UNCHANGED <<online, inflight, wire, tabs>>

StateFrame(client, view) ==
    [type |-> "room_state", via |-> "conn", target |-> client, message |-> view]

\* handlers.go: Handler.WebSocket, GET /ws/:id, after hub.Register
joinRoom(user, room) ==
    IF GetParticipant(room, user)
    THEN [room |-> room, update |-> FALSE,
          before |-> <<Frame("user_joined", "room", NoClient),
                       StateFrame(user, "full")>>,
          after |-> <<>>, failed |-> <<>>]
    ELSE IF GetPendingParticipant(room, user)
    THEN [room |-> room, update |-> FALSE,
          before |-> <<StateFrame(user, "full"),
                       Frame("participant_pending", "room", NoClient)>>,
          after |-> <<>>, failed |-> <<>>]
    ELSE [room |-> AddParticipant(room, user, RoleParticipant, StatusPending),
          update |-> TRUE, before |-> <<>>,
          after |-> <<StateFrame(user, "full"),
                      Frame("participant_pending", "room", NoClient)>>,
          failed |-> <<>>]

\* The pumps start unless store.Update failed (the handler then returns 500).
WebSocket(user) ==
    /\ user \notin online
    /\ LET res == joinRoom(user, Get(db))
       IN \E dbOk \in BOOLEAN :
             /\ db' = IF res.update THEN Save(db, res.room, dbOk) ELSE db
             /\ online' = IF res.update /\ ~dbOk THEN online ELSE online \cup {user}
    /\ UNCHANGED <<ticketSeq, actionSeq, inflight, wire, tabs>>

\* handlers.go: Handler.GetRoom, GET /rooms/:id
getRoom(user, room) ==
    IF ~GetParticipant(room, user) /\ ~GetPendingParticipant(room, user)
    THEN [room |-> AddParticipant(room, user, RoleParticipant, StatusPending),
          update |-> TRUE, before |-> <<>>, after |-> <<>>, failed |-> <<>>]
    ELSE [room |-> room, update |-> FALSE, before |-> <<>>, after |-> <<>>,
          failed |-> <<>>]

GetRoom(user) ==
    /\ LET res == getRoom(user, Get(db))
       IN \E dbOk \in BOOLEAN :
             db' = IF res.update THEN Save(db, res.room, dbOk) ELSE db
    /\ UNCHANGED <<online, ticketSeq, actionSeq, inflight, wire, tabs>>

\* handlers.go: readPump returns when the connection fails or closes;
\* it unregisters the client and broadcasts user_left
readPump(user) ==
    /\ user \in online
    /\ \A w \in inflight : w.client # user
    /\ online' = online \ {user}
    /\ UNCHANGED <<db, ticketSeq, actionSeq, inflight, wire, tabs>>

\* handlers.go: Handler.CreateRoom
CreateRoom(votesPerUser) ==
    AddParticipant(NewRoom(votesPerUser), Owner, RoleOwner, StatusApproved)

Init ==
    /\ \E v \in 1..MaxVotesPerUser : db = Update(CreateRoom(v))
    /\ online = {}
    /\ ticketSeq = 0
    /\ actionSeq = 0
    /\ inflight = {}
    /\ redisPubSub = FALSE
    /\ hub = [u \in Users |-> NoInstance]
    /\ send = [u \in Users |-> <<>>]
    /\ attempts = [u \in Users |-> <<>>]
    /\ written = [u \in Users |-> <<>>]
    /\ redis = [i \in Instances |-> <<>>]
    /\ frameSeq = 0
    /\ sockets = [c \in Conns |-> NoSocket]
    /\ rooms = [u \in Users |-> Nil]
    /\ reads = [pc |-> 0, first |-> <<>>, rows |-> <<>>]
    /\ mu = [pc |-> [c \in Conns |-> "new"], left |-> {}, run |-> Nil]

Http ==
    \/ \E user \in Users : WebSocket(user)
    \/ \E user \in Users : GetRoom(user)
    \/ \E user \in Users : readPump(user)

Next ==
    \/ \E client \in Users, message \in Frames : HandleMessage(client, message)
    \/ Http

Spec == Init /\ [][Next]_vars

\* ------------------------------------------------- the specifications
\* Spec lets every frame of Frames arrive.  The specifications below are
\* Spec with the arriving frames narrowed to the operations a group of
\* properties is about; the handlers and the HTTP actions are the same.

\* Voting: tickets are added, merged, detached again by edit_ticket, deleted
\* and voted on while users are approved, removed and come back.
VoteFrames ==
    AddTicketFrames({"a"})
    \cup EditTicketFrames({2}, {FALSE}, {""}, {Nil})
    \cup TicketFrames({"delete_ticket", "vote", "unvote"}, TicketIDs)
    \cup SetPhaseFrames({PhaseTicketing, PhaseMerging, PhaseVoting})
    \cup UserFrames({"remove_user", "approve_participant", "reject_participant"})
    \cup AutoMergeFrames({TRUE}, {<<[parent_ticket_id |-> 1, child_ticket_ids |-> <<2>>]>>})

NextVotes ==
    \/ \E client \in Users, message \in VoteFrames : HandleMessage(client, message)
    \/ Http

SpecVotes == Init /\ [][NextVotes]_vars

\* Merging: tickets are added, deleted and given any parent reference, by
\* edit_ticket and by the merge groups the chat completion service returns.
MergeFrames ==
    AddTicketFrames({"a"})
    \cup EditTicketFrames(TicketIDs, {FALSE}, {""}, {Absent, Nil} \cup Refs)
    \cup TicketFrames({"delete_ticket"}, TicketIDs)
    \cup SetPhaseFrames({PhaseTicketing, PhaseMerging})
    \cup UserFrames({"approve_participant"})
    \cup AutoMergeFrames({TRUE},
            SeqsUpTo(MergeGroup(Refs, SeqsUpTo(Refs, MaxChildren)), 1))

NextMerge ==
    \/ \E client \in Users, message \in MergeFrames : HandleMessage(client, message)
    \/ Http

SpecMerge == Init /\ [][NextMerge]_vars

\* Joining, with the handlers interleaved between their store.Get and
\* their store.Update.  Each request and each connection's readPump is a
\* goroutine of its own with a Room of its own; Update is one transaction
\* that locks the room's row first, so two Updates do not overlap.
\* A handler in flight: the room it is about to write, the connection whose
\* readPump is handling the frame (NoClient for an HTTP request) and the
\* user whose pumps start once WebSocket returns from Update.
Flight(room, client, joins) == [room |-> room, client |-> client, joins |-> joins]

JoinFrames ==
    UserFrames({"remove_user", "approve_participant", "reject_participant"})
    \cup SetRoleFrames({RoleModerator})

\* readPump reads a frame; HandleMessage runs up to the handler's Update.
\* The ids of the tickets and actions the handler made are taken from
\* uuid.New() here, so no two handlers in flight hold the same id.
BeginMessage(client, message) ==
    /\ client \in online
    /\ \A w \in inflight : w.client # client
    /\ Cardinality(inflight) < MaxInflight
    /\ LET room == Get(db)
           res == Handled(client, message)
           tickets == Added(room.tickets, res.room.tickets)
           actions == Added(room.actionTickets, res.room.actionTickets)
       IN /\ ticketSeq + tickets <= MaxTickets
          /\ actionSeq + actions <= MaxActions
          /\ ticketSeq' = ticketSeq + tickets
          /\ actionSeq' = actionSeq + actions
          /\ inflight' = IF res.update
                         THEN inflight \cup {Flight(res.room, client, NoClient)}
                         ELSE inflight
    /\ UNCHANGED <<db, online, wire, tabs>>

BeginWebSocket(user) ==
    /\ user \notin online
    /\ \A w \in inflight : w.joins # user
    /\ Cardinality(inflight) < MaxInflight
    /\ LET res == joinRoom(user, Get(db))
       IN IF res.update
          THEN /\ inflight' = inflight \cup {Flight(res.room, NoClient, user)}
               /\ UNCHANGED online
          ELSE /\ online' = online \cup {user}
               /\ UNCHANGED inflight
    /\ UNCHANGED <<db, ticketSeq, actionSeq, wire, tabs>>

BeginGetRoom(user) ==
    /\ Cardinality(inflight) < MaxInflight
    /\ LET res == getRoom(user, Get(db))
       IN inflight' = IF res.update
                      THEN inflight \cup {Flight(res.room, NoClient, NoClient)}
                      ELSE inflight
    /\ UNCHANGED <<db, online, ticketSeq, actionSeq, wire, tabs>>

\* store.Update of a handler in flight, and the handler's return
Commit(w) ==
    /\ inflight' = inflight \ {w}
    /\ \E dbOk \in BOOLEAN :
          /\ db' = Save(db, w.room, dbOk)
          /\ online' = IF dbOk /\ w.joins # NoClient
                       THEN online \cup {w.joins} ELSE online
    /\ UNCHANGED <<ticketSeq, actionSeq, wire, tabs>>

NextJoin ==
    \/ \E client \in Users, message \in JoinFrames : BeginMessage(client, message)
    \/ \E user \in Users : BeginWebSocket(user)
    \/ \E user \in Users : BeginGetRoom(user)
    \/ \E w \in inflight : Commit(w)
    \/ \E user \in Users : readPump(user)

SpecJoin == Init /\ [][NextJoin]_vars

\* Two connections adding tickets at once: the frames' handlers are
\* interleaved between store.Get and store.Update as in SpecJoin, the HTTP
\* requests are not.  The frames add to the room and none takes away.
RaceFrames ==
    AddTicketFrames({"a"})
    \cup [type : {"approve_participant"}, user_id : {"bob"}]

NextRace ==
    \/ \E client \in Users, message \in RaceFrames : BeginMessage(client, message)
    \/ \E w \in inflight : Commit(w)
    \/ Http

SpecRace == Init /\ [][NextRace]_vars

\* Routing: the room goes through every phase, role and membership status
\* with tickets in it.
RouterFrames ==
    AddTicketFrames({"a"})
    \cup SetPhaseFrames(Phases)
    \cup SetRoleFrames({RoleModerator, RoleParticipant})
    \cup UserFrames({"remove_user", "approve_participant", "reject_participant"})

NextRouter ==
    \/ \E client \in Users, message \in RouterFrames : HandleMessage(client, message)
    \/ Http

SpecRouter == Init /\ [][NextRouter]_vars

\* Ballots: tickets are added, the room moves between ticketing and voting,
\* users are approved, and votes are cast and taken back.
BallotFrames ==
    AddTicketFrames({"a"})
    \cup TicketFrames({"vote", "unvote"}, Refs)
    \cup SetPhaseFrames({PhaseTicketing, PhaseVoting})
    \cup UserFrames({"approve_participant"})

NextBallot ==
    \/ \E client \in Users, message \in BallotFrames : HandleMessage(client, message)
    \/ Http

SpecBallot == Init /\ [][NextBallot]_vars

\* RoomStore.Get beside the handlers: Get runs its four SELECT statements on
\* the pool, one after the other and outside any transaction, so each sees
\* what is committed when it runs; RoomStore.Update commits all its
\* statements at once.  A step is the next statement of a Get, `first`
\* being the rows committed when the Get began, or the return of a Get
\* that has run all four.
Scan ==
    LET tables == <<"room", "participants", "tickets", "action_tickets">>
        done == {tables[k] : k \in 1..reads.pc}
    IN /\ reads' =
             IF reads.pc = 4 THEN [pc |-> 0, first |-> <<>>, rows |-> <<>>]
             ELSE [pc |-> reads.pc + 1,
                   first |-> IF reads.pc = 0 THEN db ELSE reads.first,
                   rows |-> [t \in done \cup {tables[reads.pc + 1]} |->
                               IF t \in done THEN reads.rows[t] ELSE db[t]]]
       /\ UNCHANGED <<db, online, ticketSeq, actionSeq, inflight, wire,
                      sockets, rooms, mu>>

\* the handlers of one instance and a Get of another task; while a Get is
\* under way at most one Update changes the rows
NextSnapshot ==
    \/ /\ reads.pc = 0 \/ reads.first = db
       /\ \/ \E client \in Users, message \in BallotFrames :
                HandleMessage(client, message)
          \/ Http
    \/ Scan

SpecSnapshot == Init /\ [][NextSnapshot]_vars

\* Action items: tickets are added and deleted, the room moves between
\* ticketing and discussion, action items are added by hand and by the
\* suggester and deleted.
ActionFrames ==
    AddTicketFrames({"a"})
    \cup TicketFrames({"delete_ticket", "add_action"}, Refs)
    \cup DeleteActionFrames(ActionIDs)
    \cup SetPhaseFrames({PhaseTicketing, PhaseDiscussion})
    \cup AutoProposeFrames({TRUE}, SeqsUpTo([ticket_id : Refs], MaxActions))

NextActions ==
    \/ \E client \in Users, message \in ActionFrames : HandleMessage(client, message)
    \/ Http

SpecActions == Init /\ [][NextActions]_vars

\* ------------------------------------------------------------ delivery
\* What the payload of a room_state frame reveals of the room.
\* Hub.SendRoomState:
SendRoomState(room) ==
    [phase |-> room.phase, votes_per_user |-> room.votesPerUser,
     auto_approve |-> {room.autoApprove},
     participants |-> room.participants,
     pending_participants |-> room.pendingParticipants,
     tickets |-> room.tickets, action_tickets |-> room.actionTickets]

\* Hub.SendPendingRoomState; the payload has no auto_approve key
SendPendingRoomState(room) ==
    [phase |-> room.phase, votes_per_user |-> room.votesPerUser,
     auto_approve |-> {},
     participants |-> EmptyMap, pending_participants |-> EmptyMap,
     tickets |-> EmptyMap, action_tickets |-> EmptyMap]

\* the room_state handleApproveParticipant marshals for the approved user
ApprovedRoomState(room) ==
    [phase |-> room.phase, votes_per_user |-> room.votesPerUser,
     auto_approve |-> {},
     participants |-> room.participants,
     pending_participants |-> room.pendingParticipants,
     tickets |-> room.tickets, action_tickets |-> room.actionTickets]

\* the payload of a room_state frame a handler marshalled from its room
Payload(view, room) ==
    IF view = "full" THEN SendRoomState(room)
    ELSE IF view = "pending" THEN SendPendingRoomState(room)
    ELSE ApprovedRoomState(room)

\* Client.SendMessage making room for the frame when the channel is full
SendMessageEvicting(queue, msg) ==
    IF Len(queue) < MaxQueue THEN Append(queue, msg)
    ELSE Append(Tail(queue), msg)

\* Client.SendMessage: a non-blocking send on the buffered channel
SendMessage(queue, msg) ==
    IF Len(queue) < MaxQueue THEN Append(queue, msg) ELSE queue

\* the clients in Hub.rooms[roomID] of an instance, rooms being `clients`
Clients(clients, instance) == {u \in Users : clients[u] = instance}

broadcastToRoomLocal(clients, instance) == Clients(clients, instance)

\* broadcastToApprovedParticipantsLocal without the GetParticipant test
broadcastToAllParticipantsLocal(clients, instance, room) ==
    Clients(clients, instance)

broadcastToApprovedParticipantsLocal(clients, instance, room) ==
    {u \in Clients(clients, instance) : GetParticipant(room, u)}

sendToClientLocal(clients, instance, clientID) ==
    Clients(clients, instance) \cap {clientID}

\* The clients a frame is handed to on an instance: the handler's own
\* client for a frame it sends with client.SendMessage, otherwise the local
\* clients of the hub's delivery primitive.  `room` is what store.Get
\* returns when the primitive runs.
Local(clients, instance, frame, room) ==
    CASE frame.via = "conn" -> {frame.target}
      [] frame.via = "client" -> sendToClientLocal(clients, instance, frame.target)
      [] frame.via = "approved" ->
            broadcastToApprovedParticipantsLocal(clients, instance, room)
      [] OTHER -> broadcastToRoomLocal(clients, instance)

\* the frames a handler marshals, numbered, with the instance it runs on
Stamp(frames, instance) ==
    [k \in 1..Len(frames) |->
        [id |-> frameSeq + k, from |-> instance, frame |-> frames[k]]]

\* What a channel holds of a marshalled frame: its number, its type and,
\* of the payload, the view a room_state gives.
Bytes(msg) ==
    [id |-> msg.id, type |-> msg.frame.type,
     view |-> IF msg.frame.type = "room_state" THEN msg.frame.message ELSE ""]

\* The channels after the local part of each send of msgs, in order:
\* SendMessage(msg) on every client the frame is handed to.  With `calls`
\* the result is the record of the calls instead of the channels.
RECURSIVE Enqueue(_, _, _, _, _, _)
Enqueue(queues, msgs, clients, instance, room, calls) ==
    IF msgs = <<>> THEN queues
    ELSE LET msg == Head(msgs)
             targets == Local(clients, instance, msg.frame, room)
         IN Enqueue([u \in Users |->
                        IF u \notin targets THEN queues[u]
                        ELSE IF calls THEN Append(queues[u], Bytes(msg))
                        ELSE SendMessage(queues[u], Bytes(msg))],
                    Tail(msgs), clients, instance, room, calls)

Published(msg) == msg.frame.via # "conn"

\* The sends of a handler on `instance`, in order: the local clients are
\* served, then the frame is published to Redis, where every instance is
\* subscribed.  `blank` are the channels and records before the sends.
Broadcast(blank, msgs, clients, instance, room) ==
    /\ send' = Enqueue(blank.send, msgs, clients, instance, room, FALSE)
    /\ attempts' = Enqueue(blank.attempts, msgs, clients, instance, room, TRUE)
    /\ redis' = IF redisPubSub
                THEN [i \in Instances |-> redis[i] \o SelectSeq(msgs, Published)]
                ELSE redis
    /\ frameSeq' = frameSeq + Len(msgs)

NewClient(queues, user) == [queues EXCEPT ![user] = <<>>]

\* handlers.go: Handler.WebSocket on one instance.  NewClient and
\* hub.Register come before the room is looked at, so the client stays in
\* Hub.rooms when store.Update fails and the pumps are never started.
Connect(user, instance) ==
    /\ user \notin online
    /\ hub' = [hub EXCEPT ![user] = instance]
    /\ written' = NewClient(written, user)
    /\ LET res == joinRoom(user, Get(db))
       IN \E dbOk \in BOOLEAN :
             LET sent == res.before \o (IF res.update /\ dbOk THEN res.after ELSE <<>>)
             IN /\ frameSeq + Len(sent) <= MaxFrames
                /\ db' = IF res.update THEN Save(db, res.room, dbOk) ELSE db
                /\ online' = IF res.update /\ ~dbOk THEN online
                             ELSE online \cup {user}
                /\ Broadcast([send |-> NewClient(send, user),
                              attempts |-> NewClient(attempts, user)],
                             Stamp(sent, instance), hub', instance, Get(db'))
    /\ UNCHANGED <<ticketSeq, actionSeq, inflight, redisPubSub, tabs>>

\* readPump reads one frame and Hub.HandleMessage handles it
Receive(client, message) ==
    /\ client \in online
    /\ LET room == Get(db)
           res == Handled(client, message)
           tickets == Added(room.tickets, res.room.tickets)
       IN /\ ticketSeq + tickets <= MaxTickets
          /\ \E dbOk \in BOOLEAN :
                LET sent == res.before \o
                            (IF ~res.update THEN <<>>
                             ELSE IF dbOk THEN res.after ELSE res.failed)
                IN /\ frameSeq + Len(sent) <= MaxFrames
                   /\ db' = IF res.update THEN Save(db, res.room, dbOk) ELSE db
                   /\ ticketSeq' = IF res.update /\ dbOk
                                   THEN ticketSeq + tickets ELSE ticketSeq
                   /\ Broadcast([send |-> send, attempts |-> attempts],
                                Stamp(sent, hub[client]), hub, hub[client], Get(db'))
    /\ UNCHANGED <<online, actionSeq, inflight, redisPubSub, hub,
                   written, tabs>>

\* redis.go: RedisPubSub.Start receives one message and handleRedisMessage
\* hands it to the local clients
handleRedisMessage(instance) ==
    /\ redis[instance] # <<>>
    /\ LET msgs == <<Head(redis[instance])>>
           room == Get(db)
       IN /\ send' = Enqueue(send, msgs, hub, instance, room, FALSE)
          /\ attempts' = Enqueue(attempts, msgs, hub, instance, room, TRUE)
    /\ redis' = [redis EXCEPT ![instance] = Tail(@)]
    /\ UNCHANGED <<db, online, ticketSeq, actionSeq, inflight, redisPubSub,
                   hub, written, frameSeq, tabs>>

\* a writer that takes the newest frame of the channel
writePumpNewest(user) ==
    /\ user \in online
    /\ send[user] # <<>>
    /\ written' = [written EXCEPT ![user] = Append(@, send[user][Len(send[user])])]
    /\ send' = [send EXCEPT ![user] = SubSeq(@, 1, Len(@) - 1)]
    /\ UNCHANGED <<db, online, ticketSeq, actionSeq, inflight, redisPubSub,
                   hub, attempts, redis, frameSeq, tabs>>

\* handlers.go: Handler.writePump takes one frame from the channel and
\* writes it to the socket
writePump(user) ==
    /\ user \in online
    /\ send[user] # <<>>
    /\ written' = [written EXCEPT ![user] = Append(@, Head(send[user]))]
    /\ send' = [send EXCEPT ![user] = Tail(@)]
    /\ UNCHANGED <<db, online, ticketSeq, actionSeq, inflight, redisPubSub,
                   hub, attempts, redis, frameSeq, tabs>>

\* handlers.go: readPump returns: hub.Unregister, then NotifyUserLeft
Disconnect(user) ==
    /\ user \in online
    /\ frameSeq < MaxFrames
    /\ online' = online \ {user}
    /\ hub' = [hub EXCEPT ![user] = NoInstance]
    /\ written' = NewClient(written, user)
    /\ Broadcast([send |-> NewClient(send, user),
                  attempts |-> NewClient(attempts, user)],
                 Stamp(<<Frame("user_left", "room", NoClient)>>, hub[user]),
                 hub', hub[user], Get(db))
    /\ UNCHANGED <<db, ticketSeq, actionSeq, inflight, redisPubSub, tabs>>

\* The rooms a run starts from: the owner's room with the second user
\* unknown, pending or approved, and with auto-approve set.
StartRooms ==
    LET pending == AddParticipant(CreateRoom(1), "bob", RoleParticipant, StatusPending)
    IN {CreateRoom(1), SetAutoApprove(CreateRoom(1), TRUE), pending,
        ApproveParticipant(pending, "bob")}

\* the instances the load balancer sends a user's requests to
Balancer(user) == IF user = Owner THEN {"A"} ELSE Instances

InitDeliver ==
    /\ \E room \in StartRooms : db = Update(room)
    /\ online = {}
    /\ ticketSeq = 0
    /\ actionSeq = 0
    /\ inflight = {}
    /\ redisPubSub \in BOOLEAN
    /\ hub = [u \in Users |-> NoInstance]
    /\ send = [u \in Users |-> <<>>]
    /\ attempts = [u \in Users |-> <<>>]
    /\ written = [u \in Users |-> <<>>]
    /\ redis = [i \in Instances |-> <<>>]
    /\ frameSeq = 0
    /\ sockets = [c \in Conns |-> NoSocket]
    /\ rooms = [u \in Users |-> Nil]
    /\ reads = [pc |-> 0, first |-> <<>>, rows |-> <<>>]
    /\ mu = [pc |-> [c \in Conns |-> "new"], left |-> {}, run |-> Nil]

DeliverFrames ==
    SetPhaseFrames({PhaseVoting})
    \cup [type : {"remove_user", "approve_participant"}, user_id : {"bob"}]

\* Delivery across instances: what the hubs hand to the clients' channels,
\* with and without Redis.  The writers are left out, which only keeps the
\* channels fuller.
NextDeliver ==
    \/ \E user \in Users : \E instance \in Balancer(user) : Connect(user, instance)
    \/ \E client \in Users, message \in DeliverFrames : Receive(client, message)
    \/ \E instance \in Instances : handleRedisMessage(instance)
    \/ \E user \in Users : Disconnect(user)

SpecDeliver == InitDeliver /\ [][NextDeliver]_vars

\* One instance without Redis: the channels and their writers.
InitQueue == InitDeliver /\ ~redisPubSub

NextQueue ==
    \/ \E user \in Users : Connect(user, "A")
    \/ \E client \in Users, message \in DeliverFrames : Receive(client, message)
    \/ \E user \in Users : writePump(user)
    \/ \E user \in Users : Disconnect(user)

SpecQueue == InitQueue /\ [][NextQueue]_vars

\* ------------------------------------------------------------ properties
Rejected(res, room, client) ==
    /\ ~res.update
    /\ res.room = room
    /\ Len(res.before) = 1
    /\ res.before[1].type = "error"
    /\ res.before[1].via = "conn"
    /\ res.before[1].target = client
    /\ res.after = <<>>

VotedBy(room, userID) ==
    {t \in DOMAIN room.tickets : Contains(room.tickets[t].voterIDs, userID)}

\* the frame `message` of `client` handled on the room `room` ends with one
\* error frame on the client's connection and the room as it was
Rejects(room, client, message) ==
    LET res == Route(client, room, message, ticketSeq + 1, actionSeq + 1)
    IN Rejected(res, room, client)

\* C1: on every stored ticket votes equals the number of voterIDs, and no
\* user id occurs twice in voterIDs.
C1_VotesCountVoters ==
    \A t \in DOMAIN Stored.tickets :
        LET voterIDs == Stored.tickets[t].voterIDs
        IN /\ Stored.tickets[t].votes = Len(voterIDs)
           /\ \A i, j \in 1..Len(voterIDs) : i # j => voterIDs[i] # voterIDs[j]

\* a ticket both users voted on, one of them no longer a participant
C1_Witness ==
    \E t \in DOMAIN Stored.tickets :
        /\ Len(Stored.tickets[t].voterIDs) = 2
        /\ \E i \in 1..2 : ~GetParticipant(Stored, Stored.tickets[t].voterIDs[i])

\* C2: for every approved participant the number of tickets whose voterIDs
\* holds the user equals the participant's votesUsed.
C2_VotesUsedCountsTickets ==
    \A u \in DOMAIN Stored.participants :
        Cardinality(VotedBy(Stored, u)) = Stored.participants[u].votesUsed

\* C3: votesUsed never exceeds votesPerUser, and a vote frame of a
\* participant whose votesUsed equals votesPerUser is rejected whatever
\* ticket it names.
C3_VotesWithinQuota ==
    \A u \in DOMAIN Stored.participants :
        /\ Stored.participants[u].votesUsed <= Stored.votesPerUser
        /\ Stored.participants[u].votesUsed = Stored.votesPerUser
              => \A message \in TicketFrames({"vote"}, Refs) :
                    /\ Rejects(Stored, u, message)
                    /\ Stored.phase = PhaseVoting
                          => Handled(u, message).before[1].message
                                = "Could not vote (no votes left or already voted)"

\* in the voting phase a connected participant has used every vote and
\* there is a ticket the participant has not voted on
C3_Witness ==
    /\ Stored.phase = PhaseVoting
    /\ \E u \in online \cap DOMAIN Stored.participants :
          /\ Stored.participants[u].votesUsed = Stored.votesPerUser
          /\ \E t \in (DOMAIN Stored.tickets) \ VotedBy(Stored, u) :
                Handled(u, [type |-> "vote", ticket_id |-> t]).before[1].message
                    = "Could not vote (no votes left or already voted)"

\* C4: the merge graph is a forest of depth at most 1: no stored ticket
\* with a parent reference is itself the parent of a stored ticket.
C4_MergeForest ==
    \A t \in DOMAIN Stored.tickets :
        Stored.tickets[t].deduplicationTicketID # Nil
            => \A c \in (DOMAIN Stored.tickets) \ {t} :
                  Stored.tickets[c].deduplicationTicketID # t

\* C6: a step that deletes ticket id leaves no surviving ticket whose
\* parent reference is id.
C6_DeleteDetachesChildren ==
    [][\A id \in (DOMAIN Get(db).tickets) \ (DOMAIN Get(db').tickets) :
          \A t \in DOMAIN Get(db').tickets :
              Get(db').tickets[t].deduplicationTicketID # id]_vars

\* C5: no user id is both in participants and in pendingParticipants.
C5_ApprovedOrPending ==
    (DOMAIN Stored.participants) \cap (DOMAIN Stored.pendingParticipants) = {}

\* a user who joined has been approved while a request that loaded the
\* room earlier is about to write the user as pending
C5_Witness ==
    \E u \in online \ {Owner} :
        /\ GetParticipant(Stored, u)
        /\ Stored.participants[u].status = StatusApproved
        /\ \E w \in inflight : GetPendingParticipant(w.room, u)

\* C7: exactly one participant has role owner, it is the room's owner and
\* it is approved.
C7_OneOwner ==
    /\ {u \in DOMAIN Stored.participants :
            Stored.participants[u].role = RoleOwner} = {Owner}
    /\ Stored.participants[Owner].status = StatusApproved

\* C8: every frame of a connected user who is not an approved participant
\* is rejected: one error frame on the sender's connection, no broadcast,
\* the room as stored.
C8_UnapprovedRejected ==
    LET room == Stored
    IN \A client \in online :
          ~GetParticipant(room, client)
              => \A message \in Frames : Rejects(room, client, message)

\* a connected user who was removed and is neither approved nor pending,
\* whose add_ticket would pass every other check
C8_Witness ==
    \E client \in online :
        /\ ~GetParticipant(Stored, client)
        /\ ~GetPendingParticipant(Stored, client)
        /\ Stored.phase = PhaseTicketing
        /\ ticketSeq < MaxTickets

\* the phases a phase-gated frame type is accepted in
GatedPhases(type) ==
    CASE type = "add_ticket" -> {PhaseTicketing}
      [] type \in {"vote", "unvote"} -> {PhaseVoting}
      [] type \in {"add_action", "delete_action"} -> {PhaseDiscussion}
      [] type = "mark_covered" -> {PhaseDiscussion, PhaseSummary}
      [] type = "auto_merge" -> {PhaseMerging}
      [] type = "auto_propose_actions" -> {PhaseDiscussion}
      [] OTHER -> Phases

ModeratorTypes ==
    {"mark_covered", "add_action", "delete_action", "set_phase", "remove_user",
     "approve_participant", "reject_participant", "set_auto_approve",
     "auto_merge", "auto_propose_actions"}

\* C10: on an open connection a frame of a moderator type is rejected
\* unless the sender is a participant with role moderator or owner, and a
\* set_role frame unless the sender is the owner, the target a participant
\* and the role moderator or participant.
C10_Roles ==
    LET room == Stored
    IN \A client \in online, message \in Frames :
          /\ message.type \in ModeratorTypes
                => IsModeratorOrOwner(room, client) \/ Rejects(room, client, message)
          /\ message.type = "set_role"
                => \/ /\ client = Owner
                      /\ GetParticipant(room, client)
                      /\ GetParticipant(room, message.user_id)
                      /\ message.role \in {RoleModerator, RoleParticipant}
                   \/ Rejects(room, client, message)

\* the sender may edit or delete the ticket: its author, a moderator or the owner
MayChange(room, client, ticketID) ==
    \/ room.tickets[ticketID].authorID = client
    \/ IsModeratorOrOwner(room, client)

\* C11: on an open connection an edit_ticket or delete_ticket frame reaches
\* the store only when the sender is the ticket's author or a moderator or
\* the owner; from any other participant it is rejected with the "Not
\* authorized" error and the room, the ticket included, stays as it was.
C11_AuthorOrModerator ==
    LET room == Stored
    IN \A client \in online, message \in Frames :
          message.type \in {"edit_ticket", "delete_ticket"}
              => LET res == Route(client, room, message, ticketSeq + 1, actionSeq + 1)
                 IN /\ res.update
                          => /\ GetTicket(room, message.ticket_id)
                             /\ MayChange(room, client, message.ticket_id)
                    /\ (/\ GetParticipant(room, client)
                        /\ GetTicket(room, message.ticket_id)
                        /\ ~MayChange(room, client, message.ticket_id))
                          => /\ Rejected(res, room, client)
                             /\ res.before[1].message
                                  = IF message.type = "edit_ticket"
                                    THEN "Not authorized to edit this ticket"
                                    ELSE "Not authorized to delete this ticket"

\* a connected plain participant and a ticket written by somebody else
C11_Witness ==
    \E client \in online, t \in DOMAIN Stored.tickets :
        /\ GetParticipant(Stored, client)
        /\ Stored.participants[client].role = RoleParticipant
        /\ ~MayChange(Stored, client, t)
        /\ Rejects(Stored, client, [type |-> "delete_ticket", ticket_id |-> t])

\* the frames that tell clients of a change of the room
MutationEvents ==
    {"ticket_added", "ticket_updated", "ticket_deleted", "vote_updated",
     "action_added", "action_deleted", "phase_changed", "role_changed",
     "user_removed", "participant_approved", "participant_rejected",
     "auto_approve_changed"}

\* C12: no handler sends a frame that tells of a change of the room before
\* its store.Update; a handler that reaches Update has sent no such frame
\* yet, so a failing Update leaves the sender's error as the only trace.
C12_PersistBeforeBroadcast ==
    LET room == Stored
    IN \A client \in online, message \in Frames :
          LET res == Route(client, room, message, ticketSeq + 1, actionSeq + 1)
          IN res.update
                => \A i \in 1..Len(res.before) :
                      res.before[i].type \notin MutationEvents

\* C13: when store.Update fails while add_ticket is handled, the stored room
\* is what it was before the frame, ticket for ticket and row for row, and
\* the handler has sent nothing but the error on the sender's connection.
C13_FailedUpdateKeepsRoom ==
    LET room == Stored
    IN \A client \in online, message \in AddTicketFrames(Contents) :
          LET res == Route(client, room, message, ticketSeq + 1, actionSeq + 1)
          IN res.update
                => /\ Save(db, res.room, FALSE) = db
                   /\ Get(Save(db, res.room, FALSE)) = room
                   /\ res.before = <<>>
                   /\ res.failed = <<ErrorFrame(client, "Failed to save ticket")>>

\* a connected participant whose add_ticket reaches store.Update in a room
\* that already holds a ticket
C13_Witness ==
    \E client \in online :
        /\ Handled(client, [type |-> "add_ticket", content |-> "a"]).update
        /\ DOMAIN Stored.tickets # {}
        /\ ticketSeq < MaxTickets

\* ----------------------------------------------- properties of delivery
IsPrefix(s, t) == Len(s) <= Len(t) /\ SubSeq(t, 1, Len(s)) = s

\* the step gave the user a new client
NewConnection(user) == ~IsPrefix(attempts[user], attempts'[user])

\* the SendMessage calls of the step on the user's client, and the channel
\* they found
NewCalls(user) ==
    IF NewConnection(user) THEN attempts'[user]
    ELSE SubSeq(attempts'[user], Len(attempts[user]) + 1, Len(attempts'[user]))

Channel(user) == IF NewConnection(user) THEN <<>> ELSE send[user]

ApprovedOnly ==
    {"ticket_added", "ticket_updated", "ticket_deleted", "vote_updated",
     "action_added", "action_deleted", "phase_changed"}

HasType(calls, type) == \E i \in DOMAIN calls : calls[i].type = type

Joins(user) == user \notin online /\ user \in online'

\* C15: a user who is pending once Handler.WebSocket has looked at the room
\* gets a room_state whose payload is the pending view.
C15_PendingView ==
    [][\A user \in Users :
          Joins(user) /\ GetPendingParticipant(Stored', user)
             => /\ HasType(attempts'[user], "room_state")
                /\ \A i \in DOMAIN attempts'[user] :
                      attempts'[user][i].type = "room_state"
                         => Payload(attempts'[user][i].view, Stored')
                               = SendPendingRoomState(Stored')]_vars

\* C16: a user unknown to the room who opens the channel is stored as
\* approved and gets the full room_state and user_joined when the room's
\* autoApprove is set, and is stored as pending and gets the pending view
\* and participant_pending when it is not.
C16_JoinProtocol ==
    [][\A user \in Users :
          /\ Joins(user)
          /\ ~GetParticipant(Stored, user)
          /\ ~GetPendingParticipant(Stored, user)
          => LET calls == attempts'[user]
                 state == {calls[i].view : i \in {j \in DOMAIN calls :
                                                    calls[j].type = "room_state"}}
             IN IF Stored.autoApprove
                THEN /\ GetParticipant(Stored', user)
                     /\ {Payload(v, Stored') : v \in state} = {SendRoomState(Stored')}
                     /\ HasType(calls, "user_joined")
                ELSE /\ GetPendingParticipant(Stored', user)
                     /\ {Payload(v, Stored') : v \in state}
                           = {SendPendingRoomState(Stored')}
                     /\ HasType(calls, "participant_pending")]_vars

\* C18: with Redis configured no client is handed the same frame twice.
C18_DeliveredOnce ==
    redisPubSub
       => \A user \in Users :
             \A i, j \in DOMAIN attempts[user] :
                attempts[user][i].id = attempts[user][j].id => i = j

RoomWide ==
    {"user_joined", "user_left", "participant_pending", "participant_approved",
     "user_removed"}

Min(a, b) == IF a < b THEN a ELSE b

\* C19: a channel never holds more than MaxQueue frames; the calls of a
\* step on one client are enqueued in order while the channel has room and
\* dropped from then on, whatever the other clients' channels hold; and a
\* room-wide frame handed to one client is handed to every registered one.
C19_DropForThatConnection ==
    [][/\ \A user \in Users : Len(send'[user]) <= MaxQueue
       /\ attempts' # attempts
          => \A user \in Users :
                /\ send'[user] =
                      Channel(user) \o
                      SubSeq(NewCalls(user), 1,
                             Min(Len(NewCalls(user)), MaxQueue - Len(Channel(user))))
                /\ \A i \in DOMAIN NewCalls(user) :
                      NewCalls(user)[i].type \in RoomWide
                         => \A other \in Users :
                               hub'[other] # NoInstance
                                  => \E j \in DOMAIN NewCalls(other) :
                                        NewCalls(other)[j] = NewCalls(user)[i]]_vars

Held(user) ==
    {written[user][i] : i \in DOMAIN written[user]}
    \cup {send[user][i] : i \in DOMAIN send[user]}

\* a frame dropped on one client's full channel and kept by the other's
C19_Witness ==
    \E user, other \in Users :
       \E i \in DOMAIN attempts[user] :
          /\ attempts[user][i] \notin Held(user)
          /\ attempts[user][i] \in Held(other)

RECURSIVE IsSubsequence(_, _)
IsSubsequence(s, t) ==
    IF s = <<>> THEN TRUE
    ELSE IF t = <<>> THEN FALSE
    ELSE IF Head(s) = Head(t) THEN IsSubsequence(Tail(s), Tail(t))
    ELSE IsSubsequence(s, Tail(t))

\* C20: on every connection the frames written, followed by the frames
\* still in the channel, are the SendMessage calls in their order with the
\* dropped ones left out.
C20_WrittenInOrder ==
    \A user \in Users :
       IsSubsequence(written[user] \o send[user], attempts[user])

\* a connection that wrote two frames and lost one
C20_Witness ==
    \E user \in Users :
       /\ Len(written[user]) >= 2
       /\ Len(attempts[user]) > Len(written[user]) + Len(send[user])

\* the maps of clients two instances can hold
Registrations == [Users -> Instances \cup {NoInstance}]

C21_Linearized ==
    [][DOMAIN Stored.tickets \subseteq DOMAIN Stored'.tickets]_vars

\* ---------------------------------------------------------- connections
\* Hub.Run, case register: the entry of client.ID is set to this client
Register(clients, user, conn) == [clients EXCEPT ![user] = conn]

\* Hub.Run, case unregister: the entry of client.ID is deleted, whichever
\* client it holds
Unregister(clients, user) == [clients EXCEPT ![user] = Nil]

\* The connections a frame is handed to: the handler's own client for a
\* frame it sends with client.SendMessage, otherwise the clients that
\* Hub.rooms, here `clients`, holds for the users the primitive serves.
Handed(clients, frame, room, conn) ==
    IF frame.via = "conn" THEN {conn}
    ELSE LET local == [u \in Users |->
                          IF clients[u] # Nil THEN "A" ELSE NoInstance]
         IN {clients[u] : u \in Local(local, "A", frame, room)}

\* SendMessage on the clients each of `frames` is handed to
SendAll(socks, frames, clients, room, conn) ==
    [c \in Conns |->
        LET calls == {k \in 1..Len(frames) :
                         c \in Handed(clients, frames[k], room, conn)}
        IN [socks[c] EXCEPT
               !.send = IF @ + Cardinality(calls) < MaxQueue
                        THEN @ + Cardinality(calls) ELSE MaxQueue]]

\* the users with a connection whose readPump runs
Reading(socks) == {socks[c].user : c \in {d \in Conns : socks[d].reader}}

\* handlers.go: Handler.WebSocket for one more connection, of a user who
\* may have others open.  When store.Update fails the client stays in
\* Hub.rooms and the pumps are never started.  hub.Register returns when
\* Hub.Run has taken the client from the channel; Run writes Hub.rooms
\* under h.mu before or after the handler's broadcasts read it, `seen`
\* being what they read.
WebSocketConn(user, conn) ==
    /\ sockets[conn] = NoSocket
    /\ \A c \in Conns : c < conn => sockets[c] # NoSocket
    /\ LET res == joinRoom(user, Get(db))
           clients == Register(rooms, user, conn)
       IN \E dbOk \in BOOLEAN, seen \in {rooms, clients} :
             LET sent == res.before \o
                         (IF res.update /\ dbOk THEN res.after ELSE <<>>)
                 started == ~res.update \/ dbOk
                 opened == [sockets EXCEPT ![conn] =
                               [user |-> user, reader |-> started,
                                writer |-> started, gone |-> FALSE,
                                closed |-> FALSE, send |-> 0]]
             IN /\ db' = IF res.update THEN Save(db, res.room, dbOk) ELSE db
                /\ rooms' = clients
                /\ sockets' = SendAll(opened, sent, seen, Get(db'), conn)
                /\ online' = Reading(sockets')
    /\ UNCHANGED <<ticketSeq, actionSeq, inflight, wire, reads, mu>>

\* readPump of one connection reads a frame and Hub.HandleMessage handles it
readPumpConn(conn, message) ==
    /\ sockets[conn].reader
    /\ ~sockets[conn].gone
    /\ LET client == sockets[conn].user
           room == Get(db)
           res == Handled(client, message)
           tickets == Added(room.tickets, res.room.tickets)
       IN /\ ticketSeq + tickets <= MaxTickets
          /\ \E dbOk \in BOOLEAN :
                LET sent == res.before \o
                            (IF ~res.update THEN <<>>
                             ELSE IF dbOk THEN res.after ELSE res.failed)
                IN /\ db' = IF res.update THEN Save(db, res.room, dbOk) ELSE db
                   /\ ticketSeq' = IF res.update /\ dbOk
                                   THEN ticketSeq + tickets ELSE ticketSeq
                   /\ sockets' = SendAll(sockets, sent, rooms, Get(db'), conn)
    /\ UNCHANGED <<online, actionSeq, inflight, wire, rooms, reads, mu>>

\* The peer closes the connection or the network drops it.
Drop(conn) ==
    /\ sockets[conn].user # NoClient
    /\ ~sockets[conn].gone
    /\ sockets' = [sockets EXCEPT ![conn].gone = TRUE]
    /\ UNCHANGED <<db, online, ticketSeq, actionSeq, inflight, wire, rooms,
                   reads, mu>>

\* readPump returns when ReadMessage fails: hub.Unregister, NotifyUserLeft,
\* Conn.Close.  Hub.Run takes the client from the unregister channel and
\* deletes the entry before or after NotifyUserLeft walks Hub.rooms.
readPumpReturn(conn) ==
    /\ sockets[conn].reader
    /\ sockets[conn].gone
    /\ rooms' = Unregister(rooms, sockets[conn].user)
    /\ \E clients \in {rooms, rooms'} :
          sockets' = SendAll([sockets EXCEPT ![conn].reader = FALSE],
                             <<Frame("user_left", "room", NoClient)>>,
                             clients, Get(db), conn)
    /\ online' = Reading(sockets')
    /\ UNCHANGED <<db, ticketSeq, actionSeq, inflight, wire, reads, mu>>

\* handlers.go: Handler.writePump of one connection.  `for range
\* client.Send` blocks while the channel is empty and open, ends when it is
\* closed and drained, and the function returns when WriteMessage fails;
\* on its way out it closes the connection.
writePumpConn(conn) ==
    LET s == sockets[conn]
    IN /\ s.writer
       /\ s.send > 0 \/ s.closed
       /\ sockets' = [sockets EXCEPT ![conn] =
             IF s.send = 0
             THEN [s EXCEPT !.writer = FALSE, !.gone = TRUE]
             ELSE IF s.gone
             THEN [s EXCEPT !.send = s.send - 1, !.writer = FALSE]
             ELSE [s EXCEPT !.send = s.send - 1]]
       /\ UNCHANGED <<db, online, ticketSeq, actionSeq, inflight, wire, rooms,
                      reads, mu>>

ConnFrames ==
    AddTicketFrames({"a"})
    \cup [type : {"approve_participant"}, user_id : {"bob"}]

NextConns ==
    \/ \E user \in Users, conn \in Conns : WebSocketConn(user, conn)
    \/ \E conn \in Conns, message \in ConnFrames : readPumpConn(conn, message)
    \/ \E conn \in Conns : Drop(conn)
    \/ \E conn \in Conns : readPumpReturn(conn)
    \/ \E conn \in Conns : writePumpConn(conn)

\* the room as POST /rooms made it, one vote per user
InitConns == Init /\ Stored.votesPerUser = 1

SpecConns == InitConns /\ [][NextConns]_vars

\* Each goroutine that can take a step is scheduled.
LiveConns ==
    /\ SpecConns
    /\ \A conn \in Conns : WF_vars(readPumpReturn(conn))
    /\ \A conn \in Conns : WF_vars(writePumpConn(conn))

\* C22: every open connection whose pumps run is the one Hub.rooms holds
\* for its user, so that two connections of one user both get the frames
\* sent to the user or the room.
C22_BothRegistered ==
    \A conn \in Conns :
        sockets[conn].reader /\ ~sockets[conn].gone
        => rooms[sockets[conn].user] = conn

\* C23: once a connection is gone its readPump and its writePump both end.
C23_PumpsEnd ==
    \A conn \in Conns :
        sockets[conn].gone ~> (~sockets[conn].reader /\ ~sockets[conn].writer)

\* the room after `message` of `client` was handled on `room` and stored
After(room, client, message) ==
    LET res == Route(client, room, message, ticketSeq + 1, actionSeq + 1)
    IN IF res.update THEN Get(Update(res.room)) ELSE room

\* C24: a vote of a user on a ticket that is accepted, followed at once by
\* the user's unvote on the same ticket, leaves the room as it was before
\* the vote: the ticket's votes and voterIDs, the user's votesUsed and
\* everything else.
C24_VoteThenUnvote ==
    \A u \in Users, t \in TicketIDs :
        LET vote == [type |-> "vote", ticket_id |-> t]
            unvote == [type |-> "unvote", ticket_id |-> t]
        IN Route(u, Stored, vote, ticketSeq + 1, actionSeq + 1).update
           => /\ After(Stored, u, vote) # Stored
              /\ After(After(Stored, u, vote), u, unvote) = Stored

\* a participant with a vote used can vote on a ticket another user has
\* voted on
C24_Witness ==
    \E u \in Users, t \in TicketIDs :
        /\ Route(u, Stored, [type |-> "vote", ticket_id |-> t],
                 ticketSeq + 1, actionSeq + 1).update
        /\ Stored.participants[u].votesUsed > 0
        /\ Len(Stored.tickets[t].voterIDs) > 0

\* C25: in the voting phase a vote on a ticket that has a parent is
\* rejected and changes nothing.
C25_NoVoteOnChild ==
    Stored.phase = PhaseVoting
    => \A u \in Users, t \in DOMAIN Stored.tickets :
          Stored.tickets[t].deduplicationTicketID # Nil
          => Rejects(Stored, u, [type |-> "vote", ticket_id |-> t])

\* C26: a vote of a user who is no approved participant, on an unknown
\* ticket, with the quota used up or on a ticket the user has voted on, and
\* an unvote of a user who is no approved participant or has no vote on the
\* ticket, are rejected and leave the room as it was.
C26_FailedVoteChangesNothing ==
    \A u \in Users, t \in Refs :
        LET known == GetParticipant(Stored, u) /\ GetTicket(Stored, t)
            voted == known /\ Contains(Stored.tickets[t].voterIDs, u)
            spent == GetParticipant(Stored, u)
                     /\ Stored.participants[u].votesUsed >= Stored.votesPerUser
        IN /\ ~known \/ voted \/ spent
              => Rejects(Stored, u, [type |-> "vote", ticket_id |-> t])
           /\ ~voted => Rejects(Stored, u, [type |-> "unvote", ticket_id |-> t])

\* in the voting phase: a participant with the quota used up and a ticket
\* not voted on, and a pending user
C26_Witness ==
    /\ Stored.phase = PhaseVoting
    /\ DOMAIN Stored.pendingParticipants # {}
    /\ \E u \in DOMAIN Stored.participants :
          /\ Stored.participants[u].votesUsed = Stored.votesPerUser
          /\ (DOMAIN Stored.tickets) \ VotedBy(Stored, u) # {}

\* C27: AddParticipant for a user who is already an approved or a pending
\* participant changes nothing, whatever role and status it is called with.
C27_AddParticipantIdempotent ==
    \A u \in (DOMAIN Stored.participants) \cup (DOMAIN Stored.pendingParticipants),
       role \in {RoleOwner, RoleModerator, RoleParticipant},
       status \in {StatusPending, StatusApproved} :
        AddParticipant(Stored, u, role, status) = Stored

\* C28: the ticketID of every stored action item is the id of a stored
\* ticket.
C28_ActionsNameTickets ==
    \A a \in DOMAIN Stored.actionTickets :
        GetTicket(Stored, Stored.actionTickets[a].ticketID)

\* C29: every id in the voterIDs of a stored ticket is the id of an
\* approved participant.
C29_VotersApproved ==
    \A t \in DOMAIN Stored.tickets :
        \A i \in 1..Len(Stored.tickets[t].voterIDs) :
            GetParticipant(Stored, Stored.tickets[t].voterIDs[i])

\* C30: an edit_ticket frame that gives a ticket a parent is rejected, the
\* parent reference staying as it was, unless the parent is the id of a
\* stored ticket that has no parent itself and is not the edited ticket.
C30_EditParentValidated ==
    \A u \in Users, message \in EditTicketFrames(TicketIDs, {FALSE}, {""}, Refs) :
        LET p == message.deduplication_ticket_id
            root == /\ GetTicket(Stored, p)
                    /\ Stored.tickets[p].deduplicationTicketID = Nil
        IN ~root \/ p = message.ticket_id => Rejects(Stored, u, message)

C33_SetPhaseOnlyPhase ==
    \A u \in Users, phase \in Phases :
        LET message == [type |-> "set_phase", phase |-> phase]
        IN Route(u, Stored, message, ticketSeq + 1, actionSeq + 1).update
           => After(Stored, u, message) = [Stored EXCEPT !.phase = phase]

\* back in the ticketing phase after votes were cast: a ticket has a voter
\* and a participant has a vote used
C33_Witness ==
    /\ Stored.phase = PhaseTicketing
    /\ \E t \in DOMAIN Stored.tickets : Stored.tickets[t].votes > 0
    /\ \E u \in DOMAIN Stored.participants : Stored.participants[u].votesUsed > 0

\* C32: a Get that runs beside one Update of the room returns the rows as
\* they were committed before the Update or as they are after it, never
\* some tables from before and some from after.
C32_GetSeesOneVersion ==
    reads.pc = 4 => reads.rows = reads.first \/ reads.rows = db

\* the tickets of `room` a merge group gives its parent to: none unless the
\* parent is a ticket without a parent, else the children that are tickets
\* without a parent and are not the parent
Merged(room, group) ==
    LET p == group.parent_ticket_id
        root(t) == GetTicket(room, t) /\ room.tickets[t].deduplicationTicketID = Nil
    IN IF ~root(p) THEN {}
       ELSE {c \in {group.child_ticket_ids[i] : i \in DOMAIN group.child_ticket_ids} :
                root(c) /\ c # p}

\* the room and the number of merges after the groups from index g on were
\* applied one after the other
RECURSIVE Applied(_, _, _)
Applied(acc, groups, g) ==
    IF g > Len(groups) THEN acc
    ELSE LET merged == Merged(acc.room, groups[g])
         IN Applied([room |-> [acc.room EXCEPT !.tickets =
                                  [t \in DOMAIN acc.room.tickets |->
                                      IF t \in merged
                                      THEN [acc.room.tickets[t] EXCEPT
                                               !.deduplicationTicketID =
                                                   groups[g].parent_ticket_id]
                                      ELSE acc.room.tickets[t]]],
                     merges |-> acc.merges + Cardinality(merged)],
                    groups, g + 1)

\* the replies of the suggester the property looks at: one group with up to
\* MaxChildren children, or two groups with up to one child each
Suggestions ==
    SeqsUpTo(MergeGroup(Refs, SeqsUpTo(Refs, MaxChildren)), 1)
    \cup [1..2 -> MergeGroup(Refs, SeqsUpTo(Refs, 1))]

\* C34: auto_merge of a moderator in the merging phase gives a child the
\* parent of its group exactly when, as the group is applied, the parent is
\* a ticket without a parent and the child is a ticket without a parent
\* other than the parent; everything else of the room stays, the handler
\* reaches store.Update once, and merges_applied of the complete frame is
\* the number of children changed.
C34_AutoMergeValidated ==
    Stored.phase = PhaseMerging
    => \A u \in Users, groups \in Suggestions :
          LET res == Route(u, Stored,
                           [type |-> "auto_merge", configured |-> TRUE,
                            err |-> FALSE, groups |-> groups],
                           ticketSeq + 1, actionSeq + 1)
              want == Applied([room |-> Stored, merges |-> 0], groups, 1)
          IN IsModeratorOrOwner(Stored, u)
             => /\ res.update
                /\ res.room = want.room
                /\ Len(res.after) = 1
                /\ res.after[1].type = "auto_merge_complete"
                /\ res.after[1].count = want.merges

\* in the merging phase the suggester names a group of two children of
\* which one is skipped and one is merged
C34_Witness ==
    /\ Stored.phase = PhaseMerging
    /\ \E groups \in Suggestions :
          /\ Len(groups) = 1
          /\ Len(groups[1].child_ticket_ids) = 2
          /\ Route(Owner, Stored,
                   [type |-> "auto_merge", configured |-> TRUE,
                    err |-> FALSE, groups |-> groups],
                   ticketSeq + 1, actionSeq + 1).after[1].count = 1

\* C36: votesUsed of every approved and every pending participant of the
\* stored room is at least 0.
C36_VotesUsedNotNegative ==
    /\ \A u \in DOMAIN Stored.participants : Stored.participants[u].votesUsed >= 0
    /\ \A u \in DOMAIN Stored.pendingParticipants :
          Stored.pendingParticipants[u].votesUsed >= 0

\* C37: no user id is in the voterIDs of more tickets of the stored room
\* than votesPerUser.
C37_QuotaHoldsAcrossRejoin ==
    \A u \in Users : Cardinality(VotedBy(Stored, u)) <= Stored.votesPerUser

\* C38: when readPump of a connection returns, the entry Hub.rooms holds
\* for another connection that is still open stays, also when both
\* connections are of the same user.
C38_UnregisterOnlyThat ==
    [][\A gone \in Conns :
          sockets[gone].reader /\ ~sockets'[gone].reader
          => \A conn \in Conns \ {gone} :
                /\ sockets[conn].reader
                /\ ~sockets[conn].gone
                /\ rooms[sockets[conn].user] = conn
                => rooms'[sockets[conn].user] = conn]_vars

\* C40: a room broadcast that Handler.WebSocket issues after hub.Register
\* has returned reaches the registered connection: when the pumps start,
\* the connection's channel holds every frame of the join protocol that
\* is for the connection itself or for the users Hub.rooms now serves
\* through it, as far as the channel has room.
C40_RegisteredBeforeBroadcast ==
    [][\A conn \in Conns :
          sockets[conn] = NoSocket /\ sockets'[conn].reader
          => LET res == joinRoom(sockets'[conn].user, Stored)
                 frames == res.before \o res.after
                 mine == {k \in 1..Len(frames) :
                             conn \in Handed(rooms', frames[k], Stored', conn)}
             IN sockets'[conn].send =
                   IF Cardinality(mine) < MaxQueue
                   THEN Cardinality(mine) ELSE MaxQueue]_vars

\* ------------------------------------------------------ a deleted room
\* the rooms table without a row of this room
NoRow == [phase |-> "", votes_per_user |-> 0, auto_approve |-> FALSE]

\* RoomStore.Delete: DELETE FROM rooms; ON DELETE CASCADE takes the room's
\* participants, tickets and action_tickets rows with it
Delete(rows) ==
    [room |-> NoRow, participants |-> {}, tickets |-> EmptyMap,
     action_tickets |-> EmptyMap]

\* the rows RoomStore.Update inserts
Inserted(room) ==
    Cardinality(Update(room).participants)
    + Cardinality(DOMAIN room.tickets) + Cardinality(DOMAIN room.actionTickets)

\* RoomStore.Update without the foreign keys on room_id
CommitsNoForeignKey(rows, room, dbOk) == dbOk

\* RoomStore.Update returns nil: no statement failed and tx.Commit went
\* through.  Without a rooms row UPDATE rooms changes nothing and is no
\* error; the first INSERT then breaks the foreign key on room_id.
Commits(rows, room, dbOk) ==
    dbOk /\ (rows.room # NoRow \/ Inserted(room) = 0)

\* RoomStore.Update on rows that may have lost the room: UPDATE rooms
\* writes the row it finds, the INSERTs write theirs, and a failure rolls
\* everything back.
SaveRows(rows, room, dbOk) ==
    IF Commits(rows, room, dbOk)
    THEN [Update(room) EXCEPT !.room = IF rows.room = NoRow THEN NoRow ELSE @]
    ELSE Rollback(rows, Deleted(rows, room))

\* handlers.go: Handler.DeleteRoom, DELETE /rooms/:id: 404 without the
\* room, 403 for anyone but the owner, 500 when the DELETE fails
DeleteRoom(user) ==
    /\ \E dbOk \in BOOLEAN :
          db' = IF db.room # NoRow /\ user = Owner /\ dbOk
                THEN Delete(db) ELSE db
    /\ UNCHANGED <<online, ticketSeq, actionSeq, inflight, wire, tabs>>

\* Hub.HandleMessage from its first statement: json.Unmarshal, then
\* store.Get, which finds no room when the rooms row is gone, then the
\* approval check and the handler
Found(client, message) ==
    IF message.type # "invalid" /\ db.room = NoRow
    THEN Reject(Stored, client, "Room not found")
    ELSE Handled(client, message)

\* readPump reads a frame and Hub.HandleMessage runs up to the handler's
\* store.Update, which is left to Settle
Load(conn, message) ==
    /\ sockets[conn].reader
    /\ ~sockets[conn].gone
    /\ \A w \in inflight : w.conn # conn
    /\ Cardinality(inflight) < MaxInflight
    /\ LET client == sockets[conn].user
           res == Found(client, message)
           tickets == Added(Stored.tickets, res.room.tickets)
       IN /\ ticketSeq + tickets <= MaxTickets
          /\ ticketSeq' = ticketSeq + tickets
          /\ sockets' = SendAll(sockets, res.before, rooms, Stored, conn)
          /\ inflight' =
                IF res.update
                THEN inflight \cup {[room |-> res.room, client |-> client,
                                     joins |-> NoClient, conn |-> conn,
                                     after |-> res.after, failed |-> res.failed]}
                ELSE inflight
    /\ UNCHANGED <<db, online, actionSeq, wire, rooms, reads, mu>>

\* store.Update of a handler in flight and what the handler sends after it
Settle(w) ==
    /\ inflight' = inflight \ {w}
    /\ \E dbOk \in BOOLEAN :
          /\ db' = SaveRows(db, w.room, dbOk)
          /\ sockets' = SendAll(sockets,
                                IF Commits(db, w.room, dbOk)
                                THEN w.after ELSE w.failed,
                                rooms, Get(db'), w.conn)
    /\ UNCHANGED <<online, ticketSeq, actionSeq, wire, rooms, reads, mu>>

DeleteFrames ==
    AddTicketFrames({"a"})
    \cup [type : {"approve_participant"}, user_id : {"bob"}]
    \cup [type : {"invalid"}]

\* Connections open while the room exists (Handler.WebSocket answers 404
\* otherwise), their frames are handled with the owner's DELETE arriving
\* between a handler's store.Get and its store.Update.
NextDelete ==
    \/ \E user \in Users, conn \in Conns :
          db.room # NoRow /\ WebSocketConn(user, conn)
    \/ \E conn \in Conns, message \in DeleteFrames : Load(conn, message)
    \/ \E w \in inflight : Settle(w)
    \/ \E user \in Users : DeleteRoom(user)
    \/ \E conn \in Conns : writePumpConn(conn)

SpecDelete == InitConns /\ [][NextDelete]_vars

\* a handler in flight returns from store.Update over a deleted room: the
\* rows stay as they are and only the handler's own connection is sent a
\* frame
StaleFails ==
    \A w \in inflight :
        db.room = NoRow /\ inflight' = inflight \ {w}
        => /\ db' = db
           /\ \A conn \in Conns \ {w.conn} : sockets'[conn] = sockets[conn]

\* C39 as stated: once the owner's DELETE has gone through, the room has no
\* rows left in any table, a handler that loaded it before cannot write it
\* again and broadcasts nothing, and whatever frame arrives for the room
\* is answered with the error "Room not found".
C39_DeletedStaysDeleted ==
    /\ [](db.room = NoRow
          => /\ db = Delete(db)
             /\ \A client \in Users, message \in DeleteFrames :
                   Found(client, message)
                   = Reject(Stored, client, "Room not found"))
    /\ [][StaleFails]_vars

\* C39 with the frames told apart: the rows stay deleted and a stale
\* handler fails without a broadcast as stated; a frame that decodes is
\* answered with "Room not found", while a frame that is not valid JSON is
\* answered with "Invalid message format", the room being looked up only
\* after json.Unmarshal.
C39_DeletedStaysDeletedDecoded ==
    /\ [](db.room = NoRow
          => /\ db = Delete(db)
             /\ \A client \in Users, message \in DeleteFrames :
                   Found(client, message)
                   = Reject(Stored, client,
                            IF message.type = "invalid"
                            THEN "Invalid message format"
                            ELSE "Room not found"))
    /\ [][StaleFails]_vars

\* the room is deleted while a handler that loaded it is before its
\* store.Update and its connection is still read
C39_Witness ==
    /\ db.room = NoRow
    /\ \E w \in inflight : sockets[w.conn].reader /\ Inserted(w.room) > 0

\* ------------------------------------------------------------ Hub.mu
\* Each connection has one goroutine that uses the hub: Handler.WebSocket
\* up to `go h.readPump`, then readPump.  mu.pc is where it stands: "new"
\* before NewClient, "register" and "unregister" in the send on the
\* unbuffered channel, "ready" between two calls, "rlock" in h.mu.RLock()
\* of a broadcast primitive, "send" inside it with the read lock held,
\* "done" after NotifyUserLeft.  mu.left are the connections whose
\* hub.Unregister has returned, and mu.run is the client Hub.Run has
\* received and not yet written to Hub.rooms, Nil when Run is in its select.
\* No writePump runs here: a channel that is full stays full.

\* the frames of BroadcastToRoom, BroadcastToApprovedParticipants and
\* SendToClient
LockFrames ==
    {Frame("user_joined", "room", NoClient),
     Frame("ticket_added", "approved", NoClient)}
    \cup {Frame("auto_merge_progress", "client", u) : u \in Users}

\* the users open their connections in turn, the owner first
Caller(conn) == IF conn % 2 = 1 THEN Owner ELSE CHOOSE u \in Users : u # Owner

\* the goroutine of a connection goes on by itself: NewClient and
\* hub.Register, a call of a broadcast primitive, or readPump returning
\* with hub.Unregister
Call(conn) ==
    /\ \/ /\ mu.pc[conn] = "new"
          /\ \A c \in Conns : c < conn => mu.pc[c] # "new"
          /\ sockets' = [sockets EXCEPT ![conn] =
                            [NoSocket EXCEPT !.user = Caller(conn)]]
          /\ mu' = [mu EXCEPT !.pc[conn] = "register"]
       \/ /\ mu.pc[conn] = "ready"
          /\ \E to \in {"rlock", "unregister"} :
                mu' = [mu EXCEPT !.pc[conn] = to]
          /\ UNCHANGED sockets
    /\ UNCHANGED <<db, online, ticketSeq, actionSeq, inflight, wire, rooms,
                   reads>>

\* h.mu.RLock() returns: no writer holds the lock or waits for it
RLock(conn) ==
    /\ mu.pc[conn] = "rlock"
    /\ mu.run = Nil
    /\ mu' = [mu EXCEPT !.pc[conn] = "send"]
    /\ UNCHANGED <<db, online, ticketSeq, actionSeq, inflight, wire, sockets,
                   rooms, reads>>

\* a broadcast primitive whose SendMessage is `c.Send <- msg`, waiting
\* for room in the channel
RUnlockBlocking(conn, frame) ==
    /\ mu.pc[conn] = "send"
    /\ \A c \in Handed(rooms, frame, Stored, conn) : sockets[c].send < MaxQueue
    /\ sockets' = SendAll(sockets, <<frame>>, rooms, Stored, conn)
    /\ mu' = [mu EXCEPT !.pc[conn] = IF conn \in mu.left THEN "done" ELSE "ready"]
    /\ UNCHANGED <<db, online, ticketSeq, actionSeq, inflight, wire, rooms,
                   reads>>

\* a broadcast primitive from its RLock to its deferred RUnlock:
\* SendMessage on every client it finds in Hub.rooms, each a select with a
\* default that drops the frame when the channel is full
RUnlock(conn, frame) ==
    /\ mu.pc[conn] = "send"
    /\ sockets' = SendAll(sockets, <<frame>>, rooms, Stored, conn)
    /\ mu' = [mu EXCEPT !.pc[conn] = IF conn \in mu.left THEN "done" ELSE "ready"]
    /\ UNCHANGED <<db, online, ticketSeq, actionSeq, inflight, wire, rooms,
                   reads>>

\* Hub.Run: its select receives from h.register or h.unregister, which
\* lets the sender go on (readPump with NotifyUserLeft); then h.mu.Lock(),
\* granted when no reader holds the lock, the write to Hub.rooms and
\* h.mu.Unlock()
Run ==
    /\ \/ /\ mu.run = Nil
          /\ \E conn \in Conns :
                \/ /\ mu.pc[conn] = "register"
                   /\ mu' = [mu EXCEPT !.run = conn, !.pc[conn] = "ready"]
                \/ /\ mu.pc[conn] = "unregister"
                   /\ mu' = [mu EXCEPT !.run = conn, !.pc[conn] = "rlock",
                                       !.left = @ \cup {conn}]
          /\ UNCHANGED rooms
       \/ /\ mu.run # Nil
          /\ \A conn \in Conns : mu.pc[conn] # "send"
          /\ rooms' = IF mu.run \in mu.left
                      THEN Unregister(rooms, sockets[mu.run].user)
                      ELSE Register(rooms, sockets[mu.run].user, mu.run)
          /\ mu' = [mu EXCEPT !.run = Nil]
    /\ UNCHANGED <<db, online, ticketSeq, actionSeq, inflight, wire, sockets,
                   reads>>

NextLocks ==
    \/ \E conn \in Conns : Call(conn)
    \/ \E conn \in Conns : RLock(conn)
    \/ \E conn \in Conns, frame \in LockFrames : RUnlock(conn, frame)
    \/ Run

SpecLocks == InitConns /\ [][NextLocks]_vars

\* A goroutine that can run is scheduled: Hub.Run, and every goroutine
\* inside a call into the hub.  Whether a connection makes another call or
\* ends is left to it.
LiveLocks ==
    /\ SpecLocks
    /\ WF_vars(Run)
    /\ \A conn \in Conns :
          /\ WF_vars(RLock(conn))
          /\ WF_vars(\E frame \in LockFrames : RUnlock(conn, frame))

\* C35: every call into the hub returns.  A goroutine inside
\* hub.Register, hub.Unregister or a broadcast primitive
\* (BroadcastToRoom, BroadcastToApprovedParticipants, SendToClient) gets
\* out of it, also when the channels of all its targets are full and
\* nothing drains them, and whatever Hub.Run is doing with h.mu.
C35_BroadcastReturns ==
    \A conn \in Conns :
        mu.pc[conn] \in {"register", "unregister", "rlock", "send"}
        ~> mu.pc[conn] \in {"ready", "done"}

\* a broadcast holds the read lock while every registered client's channel
\* is full and Hub.Run waits for the write lock
C35_Witness ==
    /\ \E conn \in Conns : mu.pc[conn] = "send"
    /\ mu.run # Nil
    /\ \E u \in Users : rooms[u] # Nil
    /\ \A u \in Users : rooms[u] # Nil => sockets[rooms[u]].send = MaxQueue

====
